---- MODULE Spec2Model ----
(***************************************************************************)
(* Model of the configuration translation engine of doogie-cli: the        *)
(* edit.conf schema tables, the entry parser, the settings resolver and    *)
(* merge, the template engine and the configuration document assembler.    *)
(*                                                                         *)
(* Text.  A JavaScript string is modelled as a sequence of pieces.  A      *)
(* piece is either one character ("7", "|", "\n", ...) or a word: a        *)
(* maximal run of letters ("memsize", "auto") that no function of the     *)
(* program looks into.  Section names and key names of the static tables   *)
(* are single pieces.  Every string of the model is written in this one    *)
(* form, so equal strings are equal sequences.                             *)
(*                                                                         *)
(* Two revisions of services/dosbox-settings.ts are in the repository:     *)
(* revision 1 is src/src/services/dosbox-settings.ts, revision 2 is the    *)
(* text at src/unnamed/part_004:852-1499.  The variable rev says which     *)
(* one the build contains.                                                 *)
(***************************************************************************)
EXTENDS Integers, Sequences, FiniteSets, TLC

\* ------------------------------------------------------------------------
\* Bounds of the model
\* ------------------------------------------------------------------------

\* largest number of data lines in an override (edit.conf) file
MaxEntries == 2

\* ------------------------------------------------------------------------
\* JavaScript string primitives
\* ------------------------------------------------------------------------

Whitespace == {" ", "\n", "\t", "\r"}

Digits == {"0", "1", "2", "3", "4", "5", "6", "7", "8", "9"}

DigitVal ==
  ("0" :> 0 @@ "1" :> 1 @@ "2" :> 2 @@ "3" :> 3 @@ "4" :> 4 @@
   "5" :> 5 @@ "6" :> 6 @@ "7" :> 7 @@ "8" :> 8 @@ "9" :> 9)

\* String.prototype.trimStart
RECURSIVE trimStart(_)
trimStart(s) ==
  IF s # <<>> /\ Head(s) \in Whitespace THEN trimStart(Tail(s)) ELSE s

\* String.prototype.trimEnd
RECURSIVE trimEnd(_)
trimEnd(s) ==
  IF s # <<>> /\ s[Len(s)] \in Whitespace
  THEN trimEnd(SubSeq(s, 1, Len(s) - 1))
  ELSE s

\* String.prototype.trim
trim(s) == trimEnd(trimStart(s))

\* String.prototype.startsWith
startsWith(s, prefix) ==
  Len(s) >= Len(prefix) /\ SubSeq(s, 1, Len(prefix)) = prefix

\* String.prototype.endsWith
endsWith(s, suffix) ==
  Len(s) >= Len(suffix) /\ SubSeq(s, Len(s) - Len(suffix) + 1, Len(s)) = suffix

\* String.prototype.includes
includes(s, sub) ==
  \E i \in 0..(Len(s) - Len(sub)) : SubSeq(s, i + 1, i + Len(sub)) = sub

\* String.prototype.split(sep) for a one-character separator:
\* the sequence of the parts between the separators (never empty)
RECURSIVE splitFrom(_, _, _, _)
splitFrom(s, sep, i, cur) ==
  LET seps == {j \in i..Len(s) : s[j] = sep}
  IN  IF seps = {} THEN <<cur \o SubSeq(s, i, Len(s))>>
      ELSE LET j == CHOOSE k \in seps : \A m \in seps : k <= m
           IN  <<cur \o SubSeq(s, i, j - 1)>> \o splitFrom(s, sep, j + 1, <<>>)

split(s, sep) == splitFrom(s, sep, 1, <<>>)

\* Array.prototype.join(sep): the elements with sep between neighbours,
\* put together by halves
RECURSIVE join(_, _)
join(parts, sep) ==
  IF parts = <<>> THEN <<>>
  ELSE IF Len(parts) = 1 THEN parts[1]
  ELSE LET half == Len(parts) \div 2
       IN  join(SubSeq(parts, 1, half), sep) \o <<sep>>
           \o join(SubSeq(parts, half + 1, Len(parts)), sep)

\* str.replace(/\./g, '')
RECURSIVE removeDots(_)
removeDots(s) ==
  IF s = <<>> THEN <<>>
  ELSE IF Head(s) = "." THEN removeDots(Tail(s))
  ELSE <<Head(s)>> \o removeDots(Tail(s))

\* value of the leading run of decimal digits of s, continuing from acc
RECURSIVE leadingDigits(_, _)
leadingDigits(s, acc) ==
  IF s # <<>> /\ Head(s) \in Digits
  THEN leadingDigits(Tail(s), 10 * acc + DigitVal[Head(s)])
  ELSE acc

\* parseInt(s, 10): skips leading white space, takes an optional sign and
\* the leading digits, ignores whatever follows; NaN when there is no digit
parseInt(s) ==
  LET t == trimStart(s)
      signed == t # <<>> /\ Head(t) \in {"-", "+"}
      u == IF signed THEN Tail(t) ELSE t
  IN  IF u = <<>> \/ Head(u) \notin Digits
      THEN [nan |-> TRUE, val |-> 0]
      ELSE [nan |-> FALSE,
            val |-> IF signed /\ Head(t) = "-"
                    THEN 0 - leadingDigits(u, 0)
                    ELSE leadingDigits(u, 0)]

isNaN(n) == n.nan

\* ------------------------------------------------------------------------
\* Ordered maps.  A JavaScript object or Map with string keys iterates in
\* insertion order; it is modelled as a sequence without repeated keys.
\*   DosboxSettings : sequence of [name, items], items a sequence of
\*                    [key, value]
\*   value map      : sequence of [key, value]
\* ------------------------------------------------------------------------

\* map.has(key) / key in object
hasKey(items, key) == \E i \in 1..Len(items) : items[i].key = key

\* map.get(key), for a key the map has
getKey(items, key) ==
  items[CHOOSE i \in 1..Len(items) : items[i].key = key].value

\* Map.set that leaves the value of a key the map already has
setKey_keepFirst(items, key, value) ==
  IF hasKey(items, key) THEN items
  ELSE Append(items, [key |-> key, value |-> value])

\* map.set(key, value) / object[key] = value
setKey(items, key, value) ==
  IF hasKey(items, key)
  THEN [i \in 1..Len(items) |->
          IF items[i].key = key THEN [key |-> key, value |-> value]
          ELSE items[i]]
  ELSE Append(items, [key |-> key, value |-> value])

\* settings[section] is defined
hasSection(settings, section) ==
  \E i \in 1..Len(settings) : settings[i].name = section

\* settings[section], for a section the settings have
getSection(settings, section) ==
  settings[CHOOSE i \in 1..Len(settings) : settings[i].name = section].items

\* if (!settings[section]) settings[section] = {}
ensureSection(settings, section) ==
  IF hasSection(settings, section) THEN settings
  ELSE Append(settings, [name |-> section, items |-> <<>>])

\* settings[section][key] = value, for a section the settings have
setSetting(settings, section, key, value) ==
  [i \in 1..Len(settings) |->
     IF settings[i].name = section
     THEN [name |-> section, items |-> setKey(settings[i].items, key, value)]
     ELSE settings[i]]

\* ------------------------------------------------------------------------
\* Static tables
\* ------------------------------------------------------------------------

\* src/services/dosbox-settings.ts:13-54  section index -> section name (current schema)

SECTION_INDEX ==
  (0 :> "default" @@
   1 :> "win9x" @@
   2 :> "pcem" @@
   3 :> "separator" @@
   4 :> "log" @@
   5 :> "sdl" @@
   6 :> "dos" @@
   7 :> "dosbox" @@
   8 :> "cpu" @@
   9 :> "render" @@
   10 :> "mixer" @@
   11 :> "sblaster" @@
   12 :> "midi" @@
   13 :> "gus" @@
   14 :> "speaker" @@
   15 :> "innova" @@
   16 :> "joystick" @@
   17 :> "serial" @@
   18 :> "printer" @@
   19 :> "parallel" @@
   20 :> "glide" @@
   21 :> "voodoo" @@
   22 :> "pci" @@
   23 :> "vsync" @@
   24 :> "keyboard" @@
   25 :> "ne2000" @@
   26 :> "fdc, primary" @@
   27 :> "ide, primary" @@
   28 :> "ide, secondary" @@
   29 :> "ide, tertiary" @@
   30 :> "ide, quaternary" @@
   31 :> "mapper" @@
   32 :> "ethernet, pcap" @@
   33 :> "ethernet, slirp" @@
   34 :> "fluidsynth" @@
   35 :> "video" @@
   36 :> "pc98" @@
   37 :> "ttf" @@
   38 :> "config" @@
   39 :> "dosv")

\* src/services/dosbox-settings.ts:57-245  section -> item index -> key name (current schema)

SECTION_ITEMS ==
  (0 :> (0 :> "version" @@
         1 :> "DirectX" @@
         2 :> "Menu" @@
         3 :> "SavePath" @@
         4 :> "SetAspect") @@
   1 :> (0 :> "9xdrv" @@
         1 :> "9xres" @@
         2 :> "9xddraw" @@
         3 :> "9xd3d" @@
         4 :> "9x3dfx" @@
         5 :> "9xmpu" @@
         6 :> "9xmaster" @@
         7 :> "9xwave" @@
         8 :> "9xmidi" @@
         9 :> "9xcd" @@
         10 :> "9xboot") @@
   5 :> (0 :> "fullscreen" @@
         1 :> "fulldouble" @@
         2 :> "fullresolution" @@
         3 :> "windowresolution" @@
         4 :> "output" @@
         5 :> "autolock" @@
         6 :> "sensitivity" @@
         7 :> "waitonerror" @@
         8 :> "priority" @@
         9 :> "mapperfile" @@
         10 :> "usescancodes" @@
         11 :> "overscan" @@
         12 :> "pixelshader" @@
         13 :> "autolock_feedback" @@
         14 :> "mouse_emulation") @@
   6 :> (0 :> "xms" @@
         1 :> "ems" @@
         2 :> "umb" @@
         3 :> "keyboardlayout" @@
         4 :> "enable a20 on windows init" @@
         17 :> "int 13 extensions") @@
   7 :> (0 :> "language" @@
         1 :> "machine" @@
         2 :> "captures" @@
         3 :> "memsize" @@
         4 :> "vmemsize" @@
         5 :> "vmemsizekb" @@
         58 :> "enable pci bus") @@
   8 :> (0 :> "core" @@
         1 :> "cputype" @@
         2 :> "cycles" @@
         3 :> "cycleup" @@
         4 :> "cycledown" @@
         5 :> "isapnpbios" @@
         11 :> "apmbios") @@
   9 :> (0 :> "frameskip" @@
         1 :> "aspect" @@
         2 :> "scaler") @@
   10 :> (0 :> "nosound" @@
         1 :> "rate" @@
         2 :> "blocksize" @@
         3 :> "prebuffer") @@
   11 :> (0 :> "sbtype" @@
         1 :> "sbbase" @@
         2 :> "irq" @@
         3 :> "dma" @@
         4 :> "hdma" @@
         5 :> "sbmixer" @@
         6 :> "oplmode" @@
         7 :> "oplemu" @@
         8 :> "oplrate") @@
   12 :> (0 :> "mpu401" @@
         1 :> "mididevice" @@
         2 :> "midiconfig") @@
   13 :> (0 :> "gus" @@
         1 :> "gusrate" @@
         2 :> "gusbase" @@
         3 :> "gusirq" @@
         4 :> "gusdma") @@
   14 :> (0 :> "pcspeaker" @@
         1 :> "pcrate" @@
         2 :> "tandy" @@
         3 :> "tandyrate" @@
         4 :> "disney") @@
   16 :> (0 :> "joysticktype" @@
         1 :> "timed" @@
         2 :> "autofire" @@
         3 :> "swap34" @@
         4 :> "buttonwrap") @@
   20 :> (0 :> "glide" @@
         1 :> "lfb" @@
         2 :> "splash") @@
   21 :> (0 :> "voodoo" @@
         1 :> "voodoomem") @@
   22 :> (0 :> "voodoo" @@
         1 :> "voodoomem") @@
   27 :> (0 :> "enable" @@
         1 :> "pnp" @@
         2 :> "irq" @@
         3 :> "io" @@
         4 :> "altio" @@
         5 :> "int13fakeio" @@
         6 :> "int13fakev86io" @@
         7 :> "enable pio32" @@
         8 :> "ignore pio32" @@
         9 :> "cd-rom spinup time" @@
         10 :> "cd-rom spindown timeout" @@
         11 :> "cd-rom insertion delay") @@
   28 :> (0 :> "enable" @@
         1 :> "pnp" @@
         2 :> "irq" @@
         3 :> "io" @@
         4 :> "altio" @@
         5 :> "int13fakeio" @@
         6 :> "int13fakev86io" @@
         7 :> "enable pio32" @@
         8 :> "ignore pio32" @@
         9 :> "cd-rom spinup time" @@
         10 :> "cd-rom spindown timeout" @@
         11 :> "cd-rom insertion delay"))

\* src/services/dosbox-settings.ts:249-258  legacy (ver.20.xx) section index

SECTION_INDEX_LEGACY ==
  (0 :> "default" @@
   1 :> "win9x" @@
   2 :> "pcem" @@
   3 :> "dosbox" @@
   6 :> "cpu" @@
   19 :> "glide" @@
   21 :> "voodoo" @@
   32 :> "ethernet, pcap")

\* src/services/dosbox-settings.ts:261-299  legacy item index; section 21 item 1 is mapped to 9xres

SECTION_ITEMS_LEGACY ==
  (0 :> (0 :> "version") @@
   1 :> (0 :> "9xdrv" @@
         1 :> "9xres" @@
         2 :> "9xddraw" @@
         3 :> "9xd3d" @@
         4 :> "9x3dfx" @@
         5 :> "9xmpu" @@
         6 :> "9xmaster" @@
         7 :> "9xwave" @@
         8 :> "9xmidi" @@
         9 :> "9xcd" @@
         10 :> "9xboot") @@
   3 :> (1 :> "machine" @@
         3 :> "memsize" @@
         4 :> "vmemsize") @@
   6 :> (0 :> "core" @@
         1 :> "cputype" @@
         2 :> "cycles" @@
         5 :> "isapnpbios" @@
         11 :> "apmbios") @@
   19 :> (0 :> "mouse_emulation") @@
   21 :> (1 :> "9xres") @@
   32 :> (11 :> "cd-rom insertion delay"))

\* option-dat.ts (unnamed/part_011:19-60)  section index -> section name

SECTION_NAMES ==
  (0 :> "default" @@
   1 :> "win9x" @@
   2 :> "pcem" @@
   3 :> "separator" @@
   4 :> "log" @@
   5 :> "sdl" @@
   6 :> "dos" @@
   7 :> "dosbox" @@
   8 :> "cpu" @@
   9 :> "render" @@
   10 :> "mixer" @@
   11 :> "sblaster" @@
   12 :> "midi" @@
   13 :> "gus" @@
   14 :> "speaker" @@
   15 :> "innova" @@
   16 :> "joystick" @@
   17 :> "serial" @@
   18 :> "printer" @@
   19 :> "parallel" @@
   20 :> "glide" @@
   21 :> "voodoo" @@
   22 :> "pci" @@
   23 :> "vsync" @@
   24 :> "keyboard" @@
   25 :> "ne2000" @@
   26 :> "fdc, primary" @@
   27 :> "ide, primary" @@
   28 :> "ide, secondary" @@
   29 :> "ide, tertiary" @@
   30 :> "ide, quaternary" @@
   31 :> "mapper" @@
   32 :> "ethernet, pcap" @@
   33 :> "ethernet, slirp" @@
   34 :> "fluidsynth" @@
   35 :> "video" @@
   36 :> "pc98" @@
   37 :> "ttf" @@
   38 :> "config" @@
   39 :> "dosv")

\* option-dat.ts (unnamed/part_011:68-646)  section -> item index -> key name

OPTION_DAT_SECTION_ITEMS ==
  (0 :> (0 :> "version" @@
         1 :> "DirectX" @@
         2 :> "Menu" @@
         3 :> "SavePath" @@
         4 :> "SetAspect") @@
   1 :> (0 :> "9xdrv" @@
         1 :> "9xres" @@
         2 :> "9xddraw" @@
         3 :> "9xd3d" @@
         4 :> "9x3dfx" @@
         5 :> "9xmpu" @@
         6 :> "9xmaster" @@
         7 :> "9xwave" @@
         8 :> "9xmidi" @@
         9 :> "9xcd" @@
         10 :> "9xboot") @@
   2 :> (0 :> "PCem_Machine" @@
         1 :> "PCem_CPU" @@
         2 :> "PCem_Video_Speed" @@
         3 :> "PCem_Voodoo" @@
         4 :> "PCem_Voodoo_Type") @@
   4 :> (0 :> "log" @@
         1 :> "logfile" @@
         2 :> "debuggerrun" @@
         3 :> "vga" @@
         4 :> "vgagfx" @@
         5 :> "vgamisc" @@
         6 :> "int10" @@
         7 :> "sblaster" @@
         8 :> "dma_control" @@
         9 :> "fpu" @@
         10 :> "cpu" @@
         11 :> "paging" @@
         12 :> "fcb" @@
         13 :> "files" @@
         14 :> "ioctl" @@
         15 :> "exec" @@
         16 :> "dosmisc" @@
         17 :> "pit" @@
         18 :> "keyboard" @@
         19 :> "pic" @@
         20 :> "mouse" @@
         21 :> "bios" @@
         22 :> "gui" @@
         23 :> "misc" @@
         24 :> "io" @@
         25 :> "pci" @@
         26 :> "sst") @@
   5 :> (0 :> "fullscreen" @@
         1 :> "fulldouble" @@
         2 :> "fullresolution" @@
         3 :> "windowresolution" @@
         4 :> "output" @@
         5 :> "autolock" @@
         6 :> "sensitivity" @@
         7 :> "waitonerror" @@
         8 :> "priority" @@
         9 :> "mapperfile" @@
         10 :> "usescancodes" @@
         11 :> "overscan" @@
         12 :> "pixelshader" @@
         13 :> "autolock_feedback" @@
         14 :> "mouse_emulation" @@
         15 :> "clip_mouse_button" @@
         16 :> "clip_key_modifier" @@
         17 :> "clip_paste_speed" @@
         18 :> "mouse_wheel_key" @@
         19 :> "display" @@
         20 :> "videodriver" @@
         21 :> "transparency" @@
         22 :> "maximize" @@
         23 :> "middle_unlock" @@
         24 :> "clip_paste_bios" @@
         25 :> "usesystemcursor" @@
         26 :> "showbasic" @@
         27 :> "showdetails" @@
         28 :> "texture_renderer" @@
         29 :> "capture_mouse" @@
         30 :> "raw_mouse_input" @@
         31 :> "screensaver" @@
         32 :> "windowposition" @@
         33 :> "showmenu") @@
   6 :> (0 :> "xms" @@
         1 :> "ems" @@
         2 :> "umb" @@
         3 :> "keyboardlayout" @@
         4 :> "enable a20 on windows init" @@
         5 :> "zero memory on xms memory allocation" @@
         6 :> "zero memory on ems memory allocation" @@
         7 :> "ems system handle memory size" @@
         8 :> "umb start" @@
         9 :> "umb end" @@
         10 :> "kernel allocation in umb" @@
         11 :> "dynamic kernel allocation" @@
         12 :> "keep umb on boot" @@
         13 :> "keep private area on boot" @@
         14 :> "private area in umb" @@
         15 :> "automount" @@
         16 :> "int33" @@
         17 :> "int 13 extensions" @@
         18 :> "biosps2" @@
         19 :> "int15 mouse callback does not preserve registers" @@
         20 :> "dbcs" @@
         21 :> "filenamechar" @@
         22 :> "collating and uppercase" @@
         23 :> "files" @@
         24 :> "con device use int 16h to detect keyboard input" @@
         25 :> "zero memory on int 21h memory allocation" @@
         26 :> "hma" @@
         27 :> "hma allow reservation" @@
         28 :> "hma minimum allocation" @@
         29 :> "log console" @@
         30 :> "dos in hma" @@
         31 :> "hma free space" @@
         32 :> "cpm compatibility mode" @@
         33 :> "share" @@
         34 :> "write plain iretf for debug interrupts" @@
         35 :> "minimum dos initial private segment" @@
         36 :> "minimum mcb segment" @@
         37 :> "enable dummy device mcb" @@
         38 :> "maximum environment block size on exec" @@
         39 :> "additional environment block size on exec" @@
         40 :> "dosv" @@
         41 :> "vcpi" @@
         42 :> "unmask timer on disk io" @@
         43 :> "zero int 67h if no ems" @@
         44 :> "emm386 startup active" @@
         45 :> "ems system handle on even megabyte" @@
         46 :> "ver" @@
         47 :> "int15 wait force unmask irq" @@
         48 :> "hard drive data rate limit" @@
         49 :> "dos sda size" @@
         50 :> "minimum mcb free" @@
         51 :> "xms handles" @@
         52 :> "shell configuration as commands" @@
         53 :> "int33 disable cell granularity" @@
         54 :> "int33 hide host cursor if interrupt subroutine" @@
         55 :> "int33 hide host cursor when polling" @@
         56 :> "ansi.sys" @@
         57 :> "quick reboot" @@
         58 :> "lfn" @@
         59 :> "automountall" @@
         60 :> "mountwarning" @@
         61 :> "autofixwarning" @@
         62 :> "startcmd" @@
         63 :> "startwait" @@
         64 :> "startquiet" @@
         65 :> "dos clipboard device enable" @@
         66 :> "dos clipboard device name" @@
         67 :> "dos clipboard api" @@
         68 :> "floppy drive data rate limit" @@
         69 :> "file access tries" @@
         70 :> "network redirector" @@
         71 :> "fat32setversion" @@
         72 :> "shellhigh" @@
         73 :> "starttranspath" @@
         74 :> "vmware" @@
         75 :> "customcodepage") @@
   7 :> (0 :> "language" @@
         1 :> "machine" @@
         2 :> "captures" @@
         3 :> "memsize" @@
         4 :> "vmemsize" @@
         5 :> "vmemsizekb" @@
         6 :> "cgasnow" @@
         7 :> "forcerate" @@
         8 :> "mainline compatible mapping" @@
         9 :> "mainline compatible bios mapping" @@
         10 :> "adapter rom is ram" @@
         11 :> "shell environment size" @@
         12 :> "private area size" @@
         13 :> "a20" @@
         14 :> "isa bus clock" @@
         15 :> "pci bus clock" @@
         16 :> "rom bios allocation max" @@
         17 :> "rom bios minimum size" @@
         18 :> "memsizekb" @@
         19 :> "dos mem limit" @@
         20 :> "isa memory hole at 512kb" @@
         21 :> "memalias" @@
         22 :> "vga bios size override" @@
         23 :> "video bios dont duplicate cga first half rom font" @@
         24 :> "video bios always offer 14-pixel high rom font" @@
         25 :> "video bios always offer 16-pixel high rom font" @@
         26 :> "video bios enable cga second half rom font" @@
         27 :> "sierra ramdac" @@
         28 :> "sierra ramdac lock 565" @@
         29 :> "page flip debug line" @@
         30 :> "vertical retrace poll debug line" @@
         31 :> "allow port 92 reset" @@
         32 :> "enable port 92" @@
         33 :> "enable 1st dma controller" @@
         34 :> "enable 2nd dma controller" @@
         35 :> "allow dma address decrement" @@
         36 :> "enable dma extra page registers" @@
         37 :> "dma page registers write-only" @@
         38 :> "enable slave pic" @@
         39 :> "enable pc nmi mask" @@
         40 :> "rom bios 8x8 CGA font" @@
         41 :> "rom bios video parameter table" @@
         42 :> "allow more than 640kb base memory" @@
         43 :> "vesa lfb base scanline adjust" @@
         44 :> "allow hpel effects" @@
         45 :> "allow hretrace effects" @@
         46 :> "hretrace effect weight" @@
         47 :> "vesa vbe 1.2 modes are 32bpp" @@
         48 :> "allow low resolution vesa modes" @@
         49 :> "allow 32bpp vesa modes" @@
         50 :> "allow 24bpp vesa modes" @@
         51 :> "allow 16bpp vesa modes" @@
         52 :> "allow 15bpp vesa modes" @@
         53 :> "allow 8bpp vesa modes" @@
         54 :> "allow 4bpp vesa modes" @@
         55 :> "allow tty vesa modes" @@
         56 :> "enable vga resize delay" @@
         57 :> "resize only on vga active display width increase" @@
         58 :> "enable pci bus") @@
   8 :> (0 :> "core" @@
         1 :> "cputype" @@
         2 :> "cycles" @@
         3 :> "cycleup" @@
         4 :> "cycledown" @@
         5 :> "isapnpbios" @@
         6 :> "enable msr" @@
         7 :> "ignore undefined msr" @@
         8 :> "dynamic core cache block size" @@
         9 :> "non-recursive page fault" @@
         10 :> "ignore opcode 63" @@
         11 :> "apmbios" @@
         12 :> "apmbios allow realmode" @@
         13 :> "apmbios allow 16-bit protected mode" @@
         14 :> "apmbios allow 32-bit protected mode" @@
         15 :> "integration device" @@
         16 :> "realbig16" @@
         17 :> "fpu" @@
         18 :> "segment limits" @@
         19 :> "double fault" @@
         20 :> "reset on triple fault" @@
         21 :> "always report double fault" @@
         22 :> "always report triple fault" @@
         23 :> "enable cmpxchg8b" @@
         24 :> "interruptible rep string op" @@
         25 :> "apmbios pnp" @@
         26 :> "apmbios version" @@
         27 :> "integration device pnp" @@
         28 :> "use dynamic core with paging on" @@
         29 :> "turbo") @@
   9 :> (0 :> "frameskip" @@
         1 :> "aspect" @@
         2 :> "scaler" @@
         3 :> "linewise" @@
         4 :> "char9" @@
         5 :> "multiscan" @@
         6 :> "doublescan" @@
         7 :> "autofit" @@
         8 :> "xbrz slice" @@
         9 :> "xbrz fixed scale factor" @@
         10 :> "xbrz max scale factor" @@
         11 :> "alt render" @@
         12 :> "glshader" @@
         13 :> "euro" @@
         14 :> "monochrome_pal" @@
         15 :> "aspect_ratio" @@
         16 :> "monochrome_palette") @@
   10 :> (0 :> "nosound" @@
         1 :> "rate" @@
         2 :> "blocksize" @@
         3 :> "prebuffer" @@
         4 :> "swapstereo" @@
         5 :> "MASTER" @@
         6 :> "SPKR" @@
         7 :> "GUS" @@
         8 :> "SB" @@
         9 :> "FM" @@
         10 :> "MT32" @@
         11 :> "sample accurate" @@
         12 :> "CDAUDIO") @@
   11 :> (0 :> "sbtype" @@
         1 :> "sbbase" @@
         2 :> "irq" @@
         3 :> "dma" @@
         4 :> "hdma" @@
         5 :> "sbmixer" @@
         6 :> "oplmode" @@
         7 :> "oplemu" @@
         8 :> "oplrate" @@
         9 :> "hardwarebase" @@
         10 :> "goldplay" @@
         11 :> "adlib force timer overflow on detect" @@
         12 :> "force dsp auto-init" @@
         13 :> "force goldplay" @@
         14 :> "goldplay stereo" @@
         15 :> "dsp require interrupt acknowledge" @@
         16 :> "dsp write busy delay" @@
         17 :> "blaster environment variable" @@
         18 :> "sample rate limits" @@
         19 :> "instant direct dac" @@
         20 :> "stereo control with sbpro only" @@
         21 :> "dsp busy cycle rate" @@
         22 :> "dsp busy cycle duty" @@
         23 :> "io port aliasing" @@
         24 :> "mindma" @@
         25 :> "irq hack" @@
         26 :> "pic unmask irq" @@
         27 :> "enable speaker" @@
         28 :> "enable asp" @@
         29 :> "disable filtering" @@
         30 :> "dsp write buffer status must return 0x7f or 0xff" @@
         31 :> "pre-set sbpro stereo" @@
         32 :> "dsp busy cycle always" @@
         33 :> "oplport" @@
         34 :> "retrowave_bus" @@
         35 :> "retrowave_port" @@
         36 :> "fmstrength") @@
   12 :> (0 :> "mpu401" @@
         1 :> "mididevice" @@
         2 :> "midiconfig" @@
         3 :> "mt32.reverse.stereo" @@
         4 :> "mt32.verbose" @@
         5 :> "mt32.thread" @@
         6 :> "mt32.dac" @@
         7 :> "mt32.reverb.mode" @@
         8 :> "mt32.reverb.time" @@
         9 :> "mt32.reverb.level" @@
         10 :> "mt32.partials" @@
         11 :> "mpuirq" @@
         12 :> "samplerate" @@
         13 :> "mt32.romdir" @@
         14 :> "mt32.reverb.output.gain" @@
         15 :> "mt32.chunk" @@
         16 :> "mt32.prebuffer" @@
         17 :> "mt32.analog" @@
         18 :> "mt32.output.gain" @@
         19 :> "mt32.src.quality" @@
         20 :> "mt32.niceampramp" @@
         21 :> "fluid.driver" @@
         22 :> "fluid.soundfont") @@
   13 :> (0 :> "gus" @@
         1 :> "gusrate" @@
         2 :> "gusbase" @@
         3 :> "gusirq" @@
         4 :> "gusdma" @@
         5 :> "gusmemsize" @@
         6 :> "gus master volume" @@
         7 :> "gustype" @@
         8 :> "ultradir") @@
   14 :> (0 :> "pcspeaker" @@
         1 :> "pcrate" @@
         2 :> "tandy" @@
         3 :> "tandyrate" @@
         4 :> "disney" @@
         5 :> "ps1audio" @@
         6 :> "ps1audiorate") @@
   15 :> (0 :> "innova" @@
         1 :> "samplerate" @@
         2 :> "sidbase" @@
         3 :> "quality") @@
   16 :> (0 :> "joysticktype" @@
         1 :> "timed" @@
         2 :> "autofire" @@
         3 :> "swap34" @@
         4 :> "buttonwrap") @@
   17 :> (0 :> "serial1" @@
         1 :> "serial2" @@
         2 :> "serial3" @@
         3 :> "serial4") @@
   18 :> (0 :> "printer" @@
         1 :> "dpi" @@
         2 :> "width" @@
         3 :> "height" @@
         4 :> "printoutput" @@
         5 :> "multipage" @@
         6 :> "docpath" @@
         7 :> "timeout") @@
   19 :> (0 :> "parallel1" @@
         1 :> "parallel2" @@
         2 :> "parallel3" @@
         3 :> "dongle") @@
   20 :> (0 :> "glide" @@
         1 :> "lfb" @@
         2 :> "splash" @@
         3 :> "grport") @@
   21 :> (0 :> "voodoo" @@
         1 :> "voodoo_card" @@
         2 :> "voodoo_maxmem" @@
         3 :> "glide" @@
         4 :> "lfb" @@
         5 :> "splash") @@
   22 :> (0 :> "voodoo" @@
         1 :> "voodoomem") @@
   23 :> (0 :> "vsyncmode" @@
         1 :> "vsyncrate") @@
   24 :> (0 :> "aux" @@
         1 :> "allow output port reset" @@
         2 :> "controllertype" @@
         3 :> "auxdevice") @@
   25 :> (0 :> "ne2000" @@
         1 :> "nicbase" @@
         2 :> "nicirq" @@
         3 :> "macaddr" @@
         4 :> "backend") @@
   26 :> (0 :> "enable" @@
         1 :> "pnp" @@
         2 :> "mode") @@
   27 :> (0 :> "enable" @@
         1 :> "pnp" @@
         2 :> "irq" @@
         3 :> "io" @@
         4 :> "altio" @@
         5 :> "int13fakeio" @@
         6 :> "int13fakev86io" @@
         7 :> "enable pio32" @@
         8 :> "ignore pio32" @@
         9 :> "cd-rom spinup time" @@
         10 :> "cd-rom spindown timeout" @@
         11 :> "cd-rom insertion delay") @@
   28 :> (0 :> "enable" @@
         1 :> "pnp" @@
         2 :> "irq" @@
         3 :> "io" @@
         4 :> "altio" @@
         5 :> "int13fakeio" @@
         6 :> "int13fakev86io" @@
         7 :> "enable pio32" @@
         8 :> "ignore pio32" @@
         9 :> "cd-rom spinup time" @@
         10 :> "cd-rom spindown timeout" @@
         11 :> "cd-rom insertion delay") @@
   29 :> (0 :> "enable" @@
         1 :> "pnp") @@
   30 :> (0 :> "enable" @@
         1 :> "pnp") @@
   31 :> <<>> @@
   35 :> (0 :> "vmemsize" @@
         1 :> "vmemsizekb" @@
         2 :> "high intensity blinking") @@
   38 :> (0 :> "rem" @@
         1 :> "break" @@
         2 :> "numlock" @@
         3 :> "shell" @@
         4 :> "dos" @@
         5 :> "fcbs" @@
         6 :> "files" @@
         7 :> "country" @@
         8 :> "lastdrive"))

\* later revision of dosbox-settings.ts (unnamed/part_004:874-883): section 21 is not defined

SECTION_INDEX_LEGACY_2 ==
  (0 :> "default" @@
   1 :> "win9x" @@
   2 :> "pcem" @@
   3 :> "dosbox" @@
   6 :> "cpu" @@
   19 :> "glide" @@
   32 :> "ide, secondary")

\* later revision of dosbox-settings.ts (unnamed/part_004:887-923): section 21 is not mapped

SECTION_ITEMS_LEGACY_2 ==
  (0 :> (0 :> "version") @@
   1 :> (0 :> "9xdrv" @@
         1 :> "9xres" @@
         2 :> "9xddraw" @@
         3 :> "9xd3d" @@
         4 :> "9x3dfx" @@
         5 :> "9xmpu" @@
         6 :> "9xmaster" @@
         7 :> "9xwave" @@
         8 :> "9xmidi" @@
         9 :> "9xcd" @@
         10 :> "9xboot") @@
   3 :> (1 :> "machine" @@
         3 :> "memsize" @@
         4 :> "vmemsize") @@
   6 :> (0 :> "core" @@
         1 :> "cputype" @@
         2 :> "cycles" @@
         5 :> "isapnpbios" @@
         11 :> "apmbios") @@
   19 :> (0 :> "glide") @@
   32 :> (11 :> "cd-rom insertion delay"))

\* getDefaultDosboxSettings (dosbox-settings.ts:703-759, identical in unnamed/part_004:1328-1387)

getDefaultDosboxSettings ==
  <<[name |-> "sdl", items |-> <<
        [key |-> "fullscreen", value |-> <<"false">>],
        [key |-> "fulldouble", value |-> <<"false">>],
        [key |-> "fullresolution", value |-> <<"desktop">>],
        [key |-> "windowresolution", value |-> <<"1", "0", "2", "4", "x", "7", "6", "8">>],
        [key |-> "output", value |-> <<"opengl">>],
        [key |-> "autolock", value |-> <<"false">>],
        [key |-> "waitonerror", value |-> <<"false">>],
        [key |-> "priority", value |-> <<"higher">>],
        [key |-> "usescancodes", value |-> <<"false">>]>>],
    [name |-> "dosbox", items |-> <<
        [key |-> "machine", value |-> <<"svga", "_", "s", "3">>],
        [key |-> "memsize", value |-> <<"1", "6">>]>>],
    [name |-> "video", items |-> <<
        [key |-> "vmemsize", value |-> <<"4">>],
        [key |-> "vmemsizekb", value |-> <<"0">>]>>],
    [name |-> "render", items |-> <<
        [key |-> "frameskip", value |-> <<"0">>],
        [key |-> "aspect", value |-> <<"true">>],
        [key |-> "scaler", value |-> <<"hardware", "2", "x">>]>>],
    [name |-> "cpu", items |-> <<
        [key |-> "core", value |-> <<"auto">>],
        [key |-> "cputype", value |-> <<"auto">>],
        [key |-> "cycles", value |-> <<"auto">>]>>],
    [name |-> "mixer", items |-> <<
        [key |-> "nosound", value |-> <<"false">>],
        [key |-> "rate", value |-> <<"4", "4", "1", "0", "0">>]>>],
    [name |-> "midi", items |-> <<
        [key |-> "mpu401", value |-> <<"intelligent">>],
        [key |-> "mididevice", value |-> <<"default">>]>>],
    [name |-> "sblaster", items |-> <<
        [key |-> "sbtype", value |-> <<"sb", "1", "6">>],
        [key |-> "sbbase", value |-> <<"2", "2", "0">>],
        [key |-> "irq", value |-> <<"7">>],
        [key |-> "dma", value |-> <<"1">>],
        [key |-> "hdma", value |-> <<"5">>],
        [key |-> "sbmixer", value |-> <<"true">>]>>],
    [name |-> "gus", items |-> <<
        [key |-> "gus", value |-> <<"false">>]>>],
    [name |-> "speaker", items |-> <<
        [key |-> "pcspeaker", value |-> <<"true">>],
        [key |-> "pcrate", value |-> <<"4", "4", "1", "0", "0">>],
        [key |-> "tandy", value |-> <<"auto">>]>>]>>

\* getDefaultWin9xSettings (dosbox-settings.ts:569-698, identical in unnamed/part_004:1194-1326)

getDefaultWin9xSettings ==
  <<[name |-> "sdl", items |-> <<
        [key |-> "fullscreen", value |-> <<"false">>],
        [key |-> "fulldouble", value |-> <<"false">>],
        [key |-> "fullresolution", value |-> <<"desktop">>],
        [key |-> "windowresolution", value |-> <<"1", "0", "2", "4", "x", "7", "6", "8">>],
        [key |-> "output", value |-> <<"opengl">>],
        [key |-> "autolock", value |-> <<"true">>],
        [key |-> "autolock_feedback", value |-> <<"none">>],
        [key |-> "mouse_emulation", value |-> <<"locked">>],
        [key |-> "waitonerror", value |-> <<"false">>],
        [key |-> "priority", value |-> <<"higher">>],
        [key |-> "usescancodes", value |-> <<"false">>]>>],
    [name |-> "dosbox", items |-> <<
        [key |-> "fastbioslogo", value |-> <<"true">>],
        [key |-> "startbanner", value |-> <<"false">>],
        [key |-> "quit warning", value |-> <<"false">>],
        [key |-> "machine", value |-> <<"svga", "_", "s", "3">>],
        [key |-> "memsize", value |-> <<"2", "5", "6">>]>>],
    [name |-> "render", items |-> <<
        [key |-> "frameskip", value |-> <<"0">>],
        [key |-> "aspect", value |-> <<"true">>],
        [key |-> "scaler", value |-> <<"hardware", "2", "x">>]>>],
    [name |-> "video", items |-> <<
        [key |-> "vmemsize", value |-> <<"4">>],
        [key |-> "vmemsizekb", value |-> <<"0">>]>>],
    [name |-> "cpu", items |-> <<
        [key |-> "core", value |-> <<"dynamic">>],
        [key |-> "fpu", value |-> <<"true">>],
        [key |-> "cputype", value |-> <<"pentium">>],
        [key |-> "cycles", value |-> <<"max">>],
        [key |-> "cycleup", value |-> <<"1", "5", "0">>],
        [key |-> "cycledown", value |-> <<"1", "0", "0">>],
        [key |-> "apmbios", value |-> <<"true">>],
        [key |-> "isapnpbios", value |-> <<"true">>]>>],
    [name |-> "keyboard", items |-> <<
        [key |-> "aux", value |-> <<"false">>]>>],
    [name |-> "voodoo", items |-> <<
        [key |-> "voodoo_card", value |-> <<"auto">>],
        [key |-> "voodoo_maxmem", value |-> <<"true">>],
        [key |-> "glide", value |-> <<"true">>],
        [key |-> "lfb", value |-> <<"full", "_", "noaux">>],
        [key |-> "splash", value |-> <<"false">>]>>],
    [name |-> "mixer", items |-> <<
        [key |-> "nosound", value |-> <<"false">>],
        [key |-> "rate", value |-> <<"4", "4", "1", "0", "0">>],
        [key |-> "blocksize", value |-> <<"1", "0", "2", "4">>],
        [key |-> "prebuffer", value |-> <<"2", "0">>]>>],
    [name |-> "midi", items |-> <<
        [key |-> "mpu401", value |-> <<"intelligent">>],
        [key |-> "mididevice", value |-> <<"default">>],
        [key |-> "samplerate", value |-> <<"4", "4", "1", "0", "0">>]>>],
    [name |-> "sblaster", items |-> <<
        [key |-> "sbtype", value |-> <<"sb", "1", "6">>],
        [key |-> "sbbase", value |-> <<"2", "2", "0">>],
        [key |-> "irq", value |-> <<"7">>],
        [key |-> "dma", value |-> <<"1">>],
        [key |-> "hdma", value |-> <<"5">>],
        [key |-> "enable speaker", value |-> <<"false">>],
        [key |-> "sbmixer", value |-> <<"true">>],
        [key |-> "oplmode", value |-> <<"auto">>],
        [key |-> "oplemu", value |-> <<"default">>],
        [key |-> "oplrate", value |-> <<"4", "4", "1", "0", "0">>]>>],
    [name |-> "gus", items |-> <<
        [key |-> "gus", value |-> <<"true">>],
        [key |-> "gusrate", value |-> <<"4", "4", "1", "0", "0">>],
        [key |-> "gusmemsize", value |-> <<"-", "1">>],
        [key |-> "gusbase", value |-> <<"2", "4", "0">>],
        [key |-> "gusirq", value |-> <<"5">>],
        [key |-> "gusdma", value |-> <<"3">>],
        [key |-> "gustype", value |-> <<"classic">>]>>],
    [name |-> "speaker", items |-> <<
        [key |-> "pcspeaker", value |-> <<"true">>],
        [key |-> "pcrate", value |-> <<"4", "4", "1", "0", "0">>],
        [key |-> "tandy", value |-> <<"off">>]>>],
    [name |-> "joystick", items |-> <<
        [key |-> "joysticktype", value |-> <<"none">>]>>],
    [name |-> "serial", items |-> <<
        [key |-> "serial1", value |-> <<"dummy">>],
        [key |-> "serial2", value |-> <<"dummy">>],
        [key |-> "serial3", value |-> <<"disabled">>],
        [key |-> "serial4", value |-> <<"disabled">>]>>],
    [name |-> "parallel", items |-> <<
        [key |-> "parallel1", value |-> <<"disabled">>],
        [key |-> "parallel2", value |-> <<"disabled">>],
        [key |-> "parallel3", value |-> <<"disabled">>]>>],
    [name |-> "dos", items |-> <<
        [key |-> "xms", value |-> <<"true">>],
        [key |-> "hma", value |-> <<"true">>],
        [key |-> "ems", value |-> <<"true">>],
        [key |-> "umb", value |-> <<"true">>]>>],
    [name |-> "ide, primary", items |-> <<
        [key |-> "enable", value |-> <<"true">>],
        [key |-> "pnp", value |-> <<"true">>]>>],
    [name |-> "ide, secondary", items |-> <<
        [key |-> "enable", value |-> <<"true">>],
        [key |-> "pnp", value |-> <<"true">>]>>],
    [name |-> "ide, tertiary", items |-> <<
        [key |-> "enable", value |-> <<"false">>],
        [key |-> "pnp", value |-> <<"true">>]>>],
    [name |-> "ide, quaternary", items |-> <<
        [key |-> "enable", value |-> <<"false">>],
        [key |-> "pnp", value |-> <<"true">>]>>],
    [name |-> "fdc, primary", items |-> <<
        [key |-> "enable", value |-> <<"false">>],
        [key |-> "pnp", value |-> <<"true">>]>>]>>

\* defaults.ts (unnamed/part_010:386-813)  placeholder key -> default value

WIN9X_DEFAULTS ==
  <<[key |-> <<"sdl", "_", "fullscreen">>, value |-> <<"false">>],
    [key |-> <<"sdl", "_", "fulldouble">>, value |-> <<"false">>],
    [key |-> <<"sdl", "_", "fullresolution">>, value |-> <<"desktop">>],
    [key |-> <<"sdl", "_", "windowresolution">>, value |-> <<"1", "0", "2", "4", "x", "7", "6", "8">>],
    [key |-> <<"sdl", "_", "windowposition">>, value |-> <<>>],
    [key |-> <<"sdl", "_", "display">>, value |-> <<"0">>],
    [key |-> <<"sdl", "_", "output">>, value |-> <<"opengl">>],
    [key |-> <<"sdl", "_", "videodriver">>, value |-> <<>>],
    [key |-> <<"sdl", "_", "transparency">>, value |-> <<"0">>],
    [key |-> <<"sdl", "_", "maximize">>, value |-> <<"false">>],
    [key |-> <<"sdl", "_", "autolock">>, value |-> <<"true">>],
    [key |-> <<"sdl", "_", "autolock_feedback">>, value |-> <<"none">>],
    [key |-> <<"sdl", "_", "middle_unlock">>, value |-> <<"none">>],
    [key |-> <<"sdl", "_", "clip_mouse_button">>, value |-> <<"none">>],
    [key |-> <<"sdl", "_", "clip_key_modifier">>, value |-> <<"none">>],
    [key |-> <<"sdl", "_", "clip_paste_bios">>, value |-> <<"default">>],
    [key |-> <<"sdl", "_", "clip_paste_speed">>, value |-> <<"3", "0">>],
    [key |-> <<"sdl", "_", "sensitivity">>, value |-> <<"5", "0">>],
    [key |-> <<"sdl", "_", "usesystemcursor">>, value |-> <<"false">>],
    [key |-> <<"sdl", "_", "mouse_emulation">>, value |-> <<"locked">>],
    [key |-> <<"sdl", "_", "mouse_wheel_key">>, value |-> <<"-", "1">>],
    [key |-> <<"sdl", "_", "waitonerror">>, value |-> <<"false">>],
    [key |-> <<"sdl", "_", "priority">>, value |-> <<"higher">>],
    [key |-> <<"sdl", "_", "mapperfile">>, value |-> <<"W", "9", "X", "-", "x", ".", "txt">>],
    [key |-> <<"sdl", "_", "usescancodes">>, value |-> <<"false">>],
    [key |-> <<"sdl", "_", "overscan">>, value |-> <<"0">>],
    [key |-> <<"sdl", "_", "pixelshader">>, value |-> <<"none">>],
    [key |-> <<"sdl", "_", "showbasic">>, value |-> <<"true">>],
    [key |-> <<"sdl", "_", "showdetails">>, value |-> <<"false">>],
    [key |-> <<"sdl", "_", "showmenu">>, value |-> <<"true">>],
    [key |-> <<"log", "_", "logfile">>, value |-> <<>>],
    [key |-> <<"log", "_", "debuggerrun">>, value |-> <<"normal">>],
    [key |-> <<"dosbox", "_", "language">>, value |-> <<>>],
    [key |-> <<"dosbox", "_", "fastbioslogo">>, value |-> <<"true">>],
    [key |-> <<"dosbox", "_", "startbanner">>, value |-> <<"false">>],
    [key |-> <<"dosbox", "_", "bannercolortheme">>, value |-> <<"default">>],
    [key |-> <<"dosbox", "_", "dpi aware">>, value |-> <<"false">>],
    [key |-> <<"dosbox", "_", "quit warning">>, value |-> <<"false">>],
    [key |-> <<"dosbox", "_", "working directory option">>, value |-> <<"default">>],
    [key |-> <<"dosbox", "_", "working directory default">>, value |-> <<>>],
    [key |-> <<"dosbox", "_", "show advanced options">>, value |-> <<"false">>],
    [key |-> <<"dosbox", "_", "resolve config path">>, value |-> <<"true">>],
    [key |-> <<"dosbox", "_", "hostkey">>, value |-> <<"mapper">>],
    [key |-> <<"dosbox", "_", "mapper send key">>, value |-> <<"ctrlaltdel">>],
    [key |-> <<"dosbox", "_", "ime">>, value |-> <<"auto">>],
    [key |-> <<"dosbox", "_", "synchronize time">>, value |-> <<"false">>],
    [key |-> <<"dosbox", "_", "machine">>, value |-> <<"svga", "_", "s", "3">>],
    [key |-> <<"dosbox", "_", "captures">>, value |-> <<"dosbox">>],
    [key |-> <<"dosbox", "_", "autosave">>, value |-> <<>>],
    [key |-> <<"dosbox", "_", "saveslot">>, value |-> <<"1">>],
    [key |-> <<"dosbox", "_", "savefile">>, value |-> <<>>],
    [key |-> <<"dosbox", "_", "saveremark">>, value |-> <<"true">>],
    [key |-> <<"dosbox", "_", "forceloadstate">>, value |-> <<"false">>],
    [key |-> <<"dosbox", "_", "a20">>, value |-> <<"fast">>],
    [key |-> <<"dosbox", "_", "memsize">>, value |-> <<"2", "5", "6">>],
    [key |-> <<"dosbox", "_", "nocachedir">>, value |-> <<"false">>],
    [key |-> <<"dosbox", "_", "freesizecap">>, value |-> <<"cap">>],
    [key |-> <<"dosbox", "_", "convertdrivefat">>, value |-> <<"true">>],
    [key |-> <<"dosbox", "_", "vmemsize">>, value |-> <<"4">>],
    [key |-> <<"dosbox", "_", "vmemsizekb">>, value |-> <<"0">>],
    [key |-> <<"render", "_", "frameskip">>, value |-> <<"0">>],
    [key |-> <<"render", "_", "aspect">>, value |-> <<"true">>],
    [key |-> <<"render", "_", "aspect_ratio">>, value |-> <<"0", ":", "0">>],
    [key |-> <<"render", "_", "char9">>, value |-> <<"true">>],
    [key |-> <<"render", "_", "euro">>, value |-> <<"-", "1">>],
    [key |-> <<"render", "_", "doublescan">>, value |-> <<"true">>],
    [key |-> <<"render", "_", "scaler">>, value |-> <<"hardware", "2", "x">>],
    [key |-> <<"render", "_", "glshader">>, value |-> <<"none">>],
    [key |-> <<"render", "_", "autofit">>, value |-> <<"true">>],
    [key |-> <<"render", "_", "monochrome_pal">>, value |-> <<"green">>],
    [key |-> <<"pc98", "_", "pc-98 BIOS copyright string">>, value |-> <<"true">>],
    [key |-> <<"pc98", "_", "pc-98 fm board">>, value |-> <<"auto">>],
    [key |-> <<"pc98", "_", "pc-98 enable 256-color">>, value |-> <<"true">>],
    [key |-> <<"pc98", "_", "pc-98 enable 16-color">>, value |-> <<"true">>],
    [key |-> <<"pc98", "_", "pc-98 enable grcg">>, value |-> <<"true">>],
    [key |-> <<"pc98", "_", "pc-98 enable egc">>, value |-> <<"true">>],
    [key |-> <<"pc98", "_", "pc-98 bus mouse">>, value |-> <<"true">>],
    [key |-> <<"pc98", "_", "pc-98 force ibm keyboard layout">>, value |-> <<"false">>],
    [key |-> <<"pc98", "_", "pc-98 try font rom">>, value |-> <<"true">>],
    [key |-> <<"pc98", "_", "pc-98 anex86 font">>, value |-> <<>>],
    [key |-> <<"dosv", "_", "dosv">>, value |-> <<"off">>],
    [key |-> <<"dosv", "_", "getsysfont">>, value |-> <<"true">>],
    [key |-> <<"dosv", "_", "fontxsbcs">>, value |-> <<>>],
    [key |-> <<"dosv", "_", "fontxsbcs16">>, value |-> <<>>],
    [key |-> <<"dosv", "_", "fontxsbcs24">>, value |-> <<>>],
    [key |-> <<"dosv", "_", "fontxdbcs">>, value |-> <<>>],
    [key |-> <<"dosv", "_", "fontxdbcs14">>, value |-> <<>>],
    [key |-> <<"dosv", "_", "fontxdbcs24">>, value |-> <<>>],
    [key |-> <<"dosv", "_", "showdbcsnodosv">>, value |-> <<"true">>],
    [key |-> <<"dosv", "_", "yen">>, value |-> <<"false">>],
    [key |-> <<"dosv", "_", "fepcontrol">>, value |-> <<"ias">>],
    [key |-> <<"dosv", "_", "vtext1">>, value |-> <<"svga">>],
    [key |-> <<"dosv", "_", "vtext2">>, value |-> <<"svga">>],
    [key |-> <<"dosv", "_", "use20pixelfont">>, value |-> <<"false">>],
    [key |-> <<"dosv", "_", "j3100">>, value |-> <<"off">>],
    [key |-> <<"dosv", "_", "j3100type">>, value |-> <<"default">>],
    [key |-> <<"dosv", "_", "j3100colorscroll">>, value |-> <<"false">>],
    [key |-> <<"video", "_", "high intensity blinking">>, value |-> <<"true">>],
    [key |-> <<"vsync", "_", "vsyncmode">>, value |-> <<"off">>],
    [key |-> <<"vsync", "_", "vsyncrate">>, value |-> <<"7", "5">>],
    [key |-> <<"cpu", "_", "core">>, value |-> <<"dynamic">>],
    [key |-> <<"cpu", "_", "fpu">>, value |-> <<"true">>],
    [key |-> <<"cpu", "_", "segment limits">>, value |-> <<"true">>],
    [key |-> <<"cpu", "_", "cputype">>, value |-> <<"pentium">>],
    [key |-> <<"cpu", "_", "cycles">>, value |-> <<"max">>],
    [key |-> <<"cpu", "_", "cycleup">>, value |-> <<"1", "5", "0">>],
    [key |-> <<"cpu", "_", "cycledown">>, value |-> <<"1", "0", "0">>],
    [key |-> <<"cpu", "_", "turbo">>, value |-> <<"false">>],
    [key |-> <<"cpu", "_", "apmbios">>, value |-> <<"false">>],
    [key |-> <<"cpu", "_", "integration device">>, value |-> <<"false">>],
    [key |-> <<"cpu", "_", "isapnpbios">>, value |-> <<"false">>],
    [key |-> <<"keyboard", "_", "aux">>, value |-> <<"false">>],
    [key |-> <<"keyboard", "_", "allow output port reset">>, value |-> <<"true">>],
    [key |-> <<"keyboard", "_", "controllertype">>, value |-> <<"auto">>],
    [key |-> <<"keyboard", "_", "auxdevice">>, value |-> <<"intellimouse">>],
    [key |-> <<"ttf", "_", "font">>, value |-> <<>>],
    [key |-> <<"ttf", "_", "fontbold">>, value |-> <<>>],
    [key |-> <<"ttf", "_", "fontital">>, value |-> <<>>],
    [key |-> <<"ttf", "_", "fontboit">>, value |-> <<>>],
    [key |-> <<"ttf", "_", "colors">>, value |-> <<>>],
    [key |-> <<"ttf", "_", "outputswitch">>, value |-> <<"auto">>],
    [key |-> <<"ttf", "_", "winperc">>, value |-> <<"6", "0">>],
    [key |-> <<"ttf", "_", "ptsize">>, value |-> <<"0">>],
    [key |-> <<"ttf", "_", "lins">>, value |-> <<"0">>],
    [key |-> <<"ttf", "_", "cols">>, value |-> <<"0">>],
    [key |-> <<"ttf", "_", "righttoleft">>, value |-> <<"false">>],
    [key |-> <<"ttf", "_", "wp">>, value |-> <<>>],
    [key |-> <<"ttf", "_", "bold">>, value |-> <<"true">>],
    [key |-> <<"ttf", "_", "italic">>, value |-> <<"true">>],
    [key |-> <<"ttf", "_", "underline">>, value |-> <<"true">>],
    [key |-> <<"ttf", "_", "strikeout">>, value |-> <<"false">>],
    [key |-> <<"ttf", "_", "printfont">>, value |-> <<"true">>],
    [key |-> <<"ttf", "_", "autodbcs">>, value |-> <<"true">>],
    [key |-> <<"ttf", "_", "blinkc">>, value |-> <<"true">>],
    [key |-> <<"ttf", "_", "gbk">>, value |-> <<"false">>],
    [key |-> <<"ttf", "_", "chinasea">>, value |-> <<"false">>],
    [key |-> <<"ttf", "_", "dosvfunc">>, value |-> <<"false">>],
    [key |-> <<"voodoo", "_", "voodoo_card">>, value |-> <<"false">>],
    [key |-> <<"voodoo", "_", "voodoo_maxmem">>, value |-> <<"4">>],
    [key |-> <<"voodoo", "_", "glide">>, value |-> <<"emu">>],
    [key |-> <<"voodoo", "_", "lfb">>, value |-> <<"full">>],
    [key |-> <<"voodoo", "_", "splash">>, value |-> <<"false">>],
    [key |-> <<"mixer", "_", "nosound">>, value |-> <<"false">>],
    [key |-> <<"mixer", "_", "sample accurate">>, value |-> <<"false">>],
    [key |-> <<"mixer", "_", "swapstereo">>, value |-> <<"false">>],
    [key |-> <<"mixer", "_", "rate">>, value |-> <<"4", "4", "1", "0", "0">>],
    [key |-> <<"mixer", "_", "blocksize">>, value |-> <<"1", "0", "2", "4">>],
    [key |-> <<"mixer", "_", "prebuffer">>, value |-> <<"2", "0">>],
    [key |-> <<"midi", "_", "mpu401">>, value |-> <<"intelligent">>],
    [key |-> <<"midi", "_", "mpubase">>, value |-> <<"3", "3", "0">>],
    [key |-> <<"midi", "_", "mididevice">>, value |-> <<"default">>],
    [key |-> <<"midi", "_", "midiconfig">>, value |-> <<>>],
    [key |-> <<"midi", "_", "samplerate">>, value |-> <<"4", "4", "1", "0", "0">>],
    [key |-> <<"midi", "_", "mpuirq">>, value |-> <<"-", "1">>],
    [key |-> <<"midi", "_", "mt32.romdir">>, value |-> <<>>],
    [key |-> <<"midi", "_", "mt32.model">>, value |-> <<"auto">>],
    [key |-> <<"midi", "_", "fluid.driver">>, value |-> <<"default">>],
    [key |-> <<"midi", "_", "fluid.soundfont">>, value |-> <<>>],
    [key |-> <<"sblaster", "_", "sbtype">>, value |-> <<"sb", "1", "6">>],
    [key |-> <<"sblaster", "_", "sbbase">>, value |-> <<"2", "2", "0">>],
    [key |-> <<"sblaster", "_", "irq">>, value |-> <<"7">>],
    [key |-> <<"sblaster", "_", "dma">>, value |-> <<"1">>],
    [key |-> <<"sblaster", "_", "hdma">>, value |-> <<"5">>],
    [key |-> <<"sblaster", "_", "enable speaker">>, value |-> <<"false">>],
    [key |-> <<"sblaster", "_", "sbmixer">>, value |-> <<"true">>],
    [key |-> <<"sblaster", "_", "oplmode">>, value |-> <<"auto">>],
    [key |-> <<"sblaster", "_", "oplemu">>, value |-> <<"default">>],
    [key |-> <<"sblaster", "_", "oplrate">>, value |-> <<"4", "4", "1", "0", "0">>],
    [key |-> <<"sblaster", "_", "oplport">>, value |-> <<>>],
    [key |-> <<"sblaster", "_", "retrowave_bus">>, value |-> <<"serial">>],
    [key |-> <<"sblaster", "_", "retrowave_port">>, value |-> <<>>],
    [key |-> <<"sblaster", "_", "hardwarebase">>, value |-> <<"2", "2", "0">>],
    [key |-> <<"sblaster", "_", "goldplay">>, value |-> <<"false">>],
    [key |-> <<"sblaster", "_", "blaster environment variable">>, value |-> <<"true">>],
    [key |-> <<"gus", "_", "gus">>, value |-> <<"true">>],
    [key |-> <<"gus", "_", "gusrate">>, value |-> <<"4", "4", "1", "0", "0">>],
    [key |-> <<"gus", "_", "gusmemsize">>, value |-> <<"-", "1">>],
    [key |-> <<"gus", "_", "gus master volume">>, value |-> <<"1", "0", "0">>],
    [key |-> <<"gus", "_", "gusbase">>, value |-> <<"2", "4", "0">>],
    [key |-> <<"gus", "_", "gusirq">>, value |-> <<"5">>],
    [key |-> <<"gus", "_", "gusdma">>, value |-> <<"3">>],
    [key |-> <<"gus", "_", "gustype">>, value |-> <<"classic">>],
    [key |-> <<"gus", "_", "ultradir">>, value |-> <<"C", ":", "\\", "ULTRASND">>],
    [key |-> <<"innova", "_", "innova">>, value |-> <<"false">>],
    [key |-> <<"innova", "_", "samplerate">>, value |-> <<"2", "2", "0", "5", "0">>],
    [key |-> <<"innova", "_", "sidbase">>, value |-> <<"2", "8", "0">>],
    [key |-> <<"innova", "_", "quality">>, value |-> <<"0">>],
    [key |-> <<"speaker", "_", "pcspeaker">>, value |-> <<"true">>],
    [key |-> <<"speaker", "_", "pcrate">>, value |-> <<"4", "4", "1", "0", "0">>],
    [key |-> <<"speaker", "_", "tandy">>, value |-> <<"off">>],
    [key |-> <<"speaker", "_", "tandyrate">>, value |-> <<"4", "4", "1", "0", "0">>],
    [key |-> <<"speaker", "_", "disney">>, value |-> <<"false">>],
    [key |-> <<"speaker", "_", "ps1audio">>, value |-> <<"false">>],
    [key |-> <<"speaker", "_", "ps1audiorate">>, value |-> <<"2", "2", "0", "5", "0">>],
    [key |-> <<"joystick", "_", "joysticktype">>, value |-> <<"none">>],
    [key |-> <<"joystick", "_", "timed">>, value |-> <<"true">>],
    [key |-> <<"joystick", "_", "autofire">>, value |-> <<"false">>],
    [key |-> <<"joystick", "_", "swap34">>, value |-> <<"false">>],
    [key |-> <<"joystick", "_", "buttonwrap">>, value |-> <<"false">>],
    [key |-> <<"mapper", "_", "joy1deadzone0-">>, value |-> <<"0", ".", "6", "0">>],
    [key |-> <<"mapper", "_", "joy1deadzone0+">>, value |-> <<"0", ".", "6", "0">>],
    [key |-> <<"mapper", "_", "joy1deadzone1-">>, value |-> <<"0", ".", "6", "0">>],
    [key |-> <<"mapper", "_", "joy1deadzone1+">>, value |-> <<"0", ".", "6", "0">>],
    [key |-> <<"mapper", "_", "joy1deadzone2-">>, value |-> <<"0", ".", "6", "0">>],
    [key |-> <<"mapper", "_", "joy1deadzone2+">>, value |-> <<"0", ".", "6", "0">>],
    [key |-> <<"mapper", "_", "joy1deadzone3-">>, value |-> <<"0", ".", "6", "0">>],
    [key |-> <<"mapper", "_", "joy1deadzone3+">>, value |-> <<"0", ".", "6", "0">>],
    [key |-> <<"mapper", "_", "joy1deadzone4-">>, value |-> <<"0", ".", "6", "0">>],
    [key |-> <<"mapper", "_", "joy1deadzone4+">>, value |-> <<"0", ".", "6", "0">>],
    [key |-> <<"mapper", "_", "joy1deadzone5-">>, value |-> <<"0", ".", "6", "0">>],
    [key |-> <<"mapper", "_", "joy1deadzone5+">>, value |-> <<"0", ".", "6", "0">>],
    [key |-> <<"mapper", "_", "joy1deadzone6-">>, value |-> <<"0", ".", "6", "0">>],
    [key |-> <<"mapper", "_", "joy1deadzone6+">>, value |-> <<"0", ".", "6", "0">>],
    [key |-> <<"mapper", "_", "joy1deadzone7-">>, value |-> <<"0", ".", "6", "0">>],
    [key |-> <<"mapper", "_", "joy1deadzone7+">>, value |-> <<"0", ".", "6", "0">>],
    [key |-> <<"mapper", "_", "joy2deadzone0-">>, value |-> <<"0", ".", "6", "0">>],
    [key |-> <<"mapper", "_", "joy2deadzone0+">>, value |-> <<"0", ".", "6", "0">>],
    [key |-> <<"mapper", "_", "joy2deadzone1-">>, value |-> <<"0", ".", "6", "0">>],
    [key |-> <<"mapper", "_", "joy2deadzone1+">>, value |-> <<"0", ".", "6", "0">>],
    [key |-> <<"mapper", "_", "joy2deadzone2-">>, value |-> <<"0", ".", "6", "0">>],
    [key |-> <<"mapper", "_", "joy2deadzone2+">>, value |-> <<"0", ".", "6", "0">>],
    [key |-> <<"mapper", "_", "joy2deadzone3-">>, value |-> <<"0", ".", "6", "0">>],
    [key |-> <<"mapper", "_", "joy2deadzone3+">>, value |-> <<"0", ".", "6", "0">>],
    [key |-> <<"mapper", "_", "joy2deadzone4-">>, value |-> <<"0", ".", "6", "0">>],
    [key |-> <<"mapper", "_", "joy2deadzone4+">>, value |-> <<"0", ".", "6", "0">>],
    [key |-> <<"mapper", "_", "joy2deadzone5-">>, value |-> <<"0", ".", "6", "0">>],
    [key |-> <<"mapper", "_", "joy2deadzone5+">>, value |-> <<"0", ".", "6", "0">>],
    [key |-> <<"mapper", "_", "joy2deadzone6-">>, value |-> <<"0", ".", "6", "0">>],
    [key |-> <<"mapper", "_", "joy2deadzone6+">>, value |-> <<"0", ".", "6", "0">>],
    [key |-> <<"mapper", "_", "joy2deadzone7-">>, value |-> <<"0", ".", "6", "0">>],
    [key |-> <<"mapper", "_", "joy2deadzone7+">>, value |-> <<"0", ".", "6", "0">>],
    [key |-> <<"serial", "_", "serial1">>, value |-> <<"dummy">>],
    [key |-> <<"serial", "_", "serial2">>, value |-> <<"dummy">>],
    [key |-> <<"serial", "_", "serial3">>, value |-> <<"disabled">>],
    [key |-> <<"serial", "_", "serial4">>, value |-> <<"disabled">>],
    [key |-> <<"serial", "_", "serial5">>, value |-> <<"disabled">>],
    [key |-> <<"serial", "_", "serial6">>, value |-> <<"disabled">>],
    [key |-> <<"serial", "_", "serial7">>, value |-> <<"disabled">>],
    [key |-> <<"serial", "_", "serial8">>, value |-> <<"disabled">>],
    [key |-> <<"serial", "_", "serial9">>, value |-> <<"disabled">>],
    [key |-> <<"serial", "_", "phonebookfile">>, value |-> <<"phonebook", ".", "txt">>],
    [key |-> <<"parallel", "_", "parallel1">>, value |-> <<"disabled">>],
    [key |-> <<"parallel", "_", "parallel2">>, value |-> <<"disabled">>],
    [key |-> <<"parallel", "_", "parallel3">>, value |-> <<"disabled">>],
    [key |-> <<"parallel", "_", "parallel4">>, value |-> <<"disabled">>],
    [key |-> <<"parallel", "_", "parallel5">>, value |-> <<"disabled">>],
    [key |-> <<"parallel", "_", "parallel6">>, value |-> <<"disabled">>],
    [key |-> <<"parallel", "_", "parallel7">>, value |-> <<"disabled">>],
    [key |-> <<"parallel", "_", "parallel8">>, value |-> <<"disabled">>],
    [key |-> <<"parallel", "_", "parallel9">>, value |-> <<"disabled">>],
    [key |-> <<"parallel", "_", "dongle">>, value |-> <<"false">>],
    [key |-> <<"printer", "_", "printer">>, value |-> <<"false">>],
    [key |-> <<"printer", "_", "dpi">>, value |-> <<"3", "6", "0">>],
    [key |-> <<"printer", "_", "width">>, value |-> <<"8", "5">>],
    [key |-> <<"printer", "_", "height">>, value |-> <<"1", "1", "0">>],
    [key |-> <<"printer", "_", "printoutput">>, value |-> <<"png">>],
    [key |-> <<"printer", "_", "multipage">>, value |-> <<"false">>],
    [key |-> <<"printer", "_", "device">>, value |-> <<>>],
    [key |-> <<"printer", "_", "docpath">>, value |-> <<".">>],
    [key |-> <<"printer", "_", "fontpath">>, value |-> <<>>],
    [key |-> <<"printer", "_", "openwith">>, value |-> <<>>],
    [key |-> <<"printer", "_", "openerror">>, value |-> <<"false">>],
    [key |-> <<"printer", "_", "printdbcs">>, value |-> <<"true">>],
    [key |-> <<"printer", "_", "shellhide">>, value |-> <<"true">>],
    [key |-> <<"printer", "_", "timeout">>, value |-> <<"0">>],
    [key |-> <<"dos", "_", "xms">>, value |-> <<"true">>],
    [key |-> <<"dos", "_", "xms handles">>, value |-> <<"0">>],
    [key |-> <<"dos", "_", "shell configuration as commands">>, value |-> <<"true">>],
    [key |-> <<"dos", "_", "hma">>, value |-> <<"true">>],
    [key |-> <<"dos", "_", "hard drive data rate limit">>, value |-> <<"-", "1">>],
    [key |-> <<"dos", "_", "floppy drive data rate limit">>, value |-> <<"0">>],
    [key |-> <<"dos", "_", "ansi.sys">>, value |-> <<"true">>],
    [key |-> <<"dos", "_", "log console">>, value |-> <<"false">>],
    [key |-> <<"dos", "_", "share">>, value |-> <<"true">>],
    [key |-> <<"dos", "_", "file access tries">>, value |-> <<"3">>],
    [key |-> <<"dos", "_", "network redirector">>, value |-> <<"true">>],
    [key |-> <<"dos", "_", "minimum mcb free">>, value |-> <<"0">>],
    [key |-> <<"dos", "_", "ems">>, value |-> <<"true">>],
    [key |-> <<"dos", "_", "umb">>, value |-> <<"true">>],
    [key |-> <<"dos", "_", "quick reboot">>, value |-> <<"false">>],
    [key |-> <<"dos", "_", "ver">>, value |-> <<"auto">>],
    [key |-> <<"dos", "_", "lfn">>, value |-> <<"auto">>],
    [key |-> <<"dos", "_", "fat32setversion">>, value |-> <<"ask">>],
    [key |-> <<"dos", "_", "shellhigh">>, value |-> <<"auto">>],
    [key |-> <<"dos", "_", "automount">>, value |-> <<"true">>],
    [key |-> <<"dos", "_", "automountall">>, value |-> <<"true">>],
    [key |-> <<"dos", "_", "mountwarning">>, value |-> <<"true">>],
    [key |-> <<"dos", "_", "autofixwarning">>, value |-> <<"false">>],
    [key |-> <<"dos", "_", "startcmd">>, value |-> <<"false">>],
    [key |-> <<"dos", "_", "starttranspath">>, value |-> <<"true">>],
    [key |-> <<"dos", "_", "startwait">>, value |-> <<"true">>],
    [key |-> <<"dos", "_", "startquiet">>, value |-> <<"false">>],
    [key |-> <<"dos", "_", "vmware">>, value |-> <<"true">>],
    [key |-> <<"dos", "_", "int33">>, value |-> <<"true">>],
    [key |-> <<"dos", "_", "keyboardlayout">>, value |-> <<"auto">>],
    [key |-> <<"dos", "_", "customcodepage">>, value |-> <<>>],
    [key |-> <<"dos", "_", "dbcs">>, value |-> <<"true">>],
    [key |-> <<"dos", "_", "dos clipboard device enable">>, value |-> <<"false">>],
    [key |-> <<"dos", "_", "dos clipboard device name">>, value |-> <<"CLIP", "$">>],
    [key |-> <<"dos", "_", "dos clipboard api">>, value |-> <<"true">>],
    [key |-> <<"ipx", "_", "ipx">>, value |-> <<"false">>],
    [key |-> <<"ne2000", "_", "ne2000">>, value |-> <<"false">>],
    [key |-> <<"ne2000", "_", "nicbase">>, value |-> <<"3", "0", "0">>],
    [key |-> <<"ne2000", "_", "nicirq">>, value |-> <<"3">>],
    [key |-> <<"ne2000", "_", "macaddr">>, value |-> <<"AC", ":", "DE", ":", "4", "8", ":", "8", "8", ":", "9", "9", ":", "AA">>],
    [key |-> <<"ne2000", "_", "backend">>, value |-> <<"auto">>],
    [key |-> <<"ethernet, pcap", "_", "realnic">>, value |-> <<>>],
    [key |-> <<"ethernet, pcap", "_", "timeout">>, value |-> <<"0">>],
    [key |-> <<"ethernet, slirp", "_", "ipv4_network">>, value |-> <<>>],
    [key |-> <<"ethernet, slirp", "_", "ipv4_netmask">>, value |-> <<>>],
    [key |-> <<"ethernet, slirp", "_", "ipv4_host">>, value |-> <<>>],
    [key |-> <<"ethernet, slirp", "_", "ipv4_nameserver">>, value |-> <<>>],
    [key |-> <<"ethernet, slirp", "_", "ipv4_dhcp_start">>, value |-> <<>>],
    [key |-> <<"ide, primary", "_", "enable">>, value |-> <<"true">>],
    [key |-> <<"ide, primary", "_", "pnp">>, value |-> <<"false">>],
    [key |-> <<"ide, secondary", "_", "enable">>, value |-> <<"true">>],
    [key |-> <<"ide, secondary", "_", "pnp">>, value |-> <<"false">>],
    [key |-> <<"ide, tertiary", "_", "enable">>, value |-> <<"false">>],
    [key |-> <<"ide, tertiary", "_", "pnp">>, value |-> <<"false">>],
    [key |-> <<"ide, quaternary", "_", "enable">>, value |-> <<"false">>],
    [key |-> <<"ide, quaternary", "_", "pnp">>, value |-> <<"false">>],
    [key |-> <<"ide, quinternary", "_", "enable">>, value |-> <<"false">>],
    [key |-> <<"ide, quinternary", "_", "pnp">>, value |-> <<"false">>],
    [key |-> <<"ide, sexternary", "_", "enable">>, value |-> <<"false">>],
    [key |-> <<"ide, sexternary", "_", "pnp">>, value |-> <<"false">>],
    [key |-> <<"ide, septernary", "_", "enable">>, value |-> <<"false">>],
    [key |-> <<"ide, septernary", "_", "pnp">>, value |-> <<"false">>],
    [key |-> <<"ide, octernary", "_", "enable">>, value |-> <<"false">>],
    [key |-> <<"ide, octernary", "_", "pnp">>, value |-> <<"false">>],
    [key |-> <<"fdc, primary", "_", "enable">>, value |-> <<"true">>],
    [key |-> <<"fdc, primary", "_", "pnp">>, value |-> <<"false">>],
    [key |-> <<"fdc, primary", "_", "mode">>, value |-> <<"ps", "2">>],
    [key |-> <<"4dos", "_", "rem">>, value |-> <<>>],
    [key |-> <<"config", "_", "rem">>, value |-> <<>>],
    [key |-> <<"config", "_", "break">>, value |-> <<"true">>],
    [key |-> <<"config", "_", "numlock">>, value |-> <<>>],
    [key |-> <<"config", "_", "shell">>, value |-> <<>>],
    [key |-> <<"config", "_", "dos">>, value |-> <<"high">>],
    [key |-> <<"config", "_", "fcbs">>, value |-> <<"1", "0", "0">>],
    [key |-> <<"config", "_", "files">>, value |-> <<"1", "2", "7">>],
    [key |-> <<"config", "_", "country">>, value |-> <<>>],
    [key |-> <<"config", "_", "lastdrive">>, value |-> <<"z">>],
    [key |-> <<"config", "_", "install">>, value |-> <<>>],
    [key |-> <<"config", "_", "installhigh">>, value |-> <<>>],
    [key |-> <<"config", "_", "device">>, value |-> <<>>],
    [key |-> <<"config", "_", "devicehigh">>, value |-> <<>>]>>

\* ------------------------------------------------------------------------
\* services/dosbox-settings.ts
\* ------------------------------------------------------------------------

\* the marker that starts a version line: 'ver.'
VerPrefix == <<"ver", ".">>

\* for (const line of lines) { ... } of parseEditConfVersion
RECURSIVE versionOfLines(_)
versionOfLines(lines) ==
  IF lines = <<>> THEN 0
  ELSE LET trimmed == trim(Head(lines))
       IN  IF startsWith(trimmed, VerPrefix)
           THEN LET versionStr == removeDots(SubSeq(trimmed, Len(VerPrefix) + 1, Len(trimmed)))
                    version == parseInt(versionStr)
                IN  IF isNaN(version) THEN 0 ELSE version.val
           ELSE versionOfLines(Tail(lines))

\* parseEditConfVersion(content): ver.23.01.10 -> 230110, 0 without marker
parseEditConfVersion(content) == versionOfLines(split(content, "\n"))

\* 220000 = ver.22.00.00
LegacyThreshold == 220000

\* isLegacyVersion with the threshold itself counted as legacy
isLegacyVersion_inclusive(version) == version <= LegacyThreshold

\* isLegacyVersion(version)
isLegacyVersion(version) == version < LegacyThreshold

\* for (const line of lines) { ... } of parseEditConf
RECURSIVE entriesOfLines(_)
entriesOfLines(lines) ==
  IF lines = <<>> THEN <<>>
  ELSE LET trimmed == trim(Head(lines))
           rest == entriesOfLines(Tail(lines))
       IN  IF startsWith(trimmed, VerPrefix) \/ trimmed = <<>> THEN rest
           ELSE LET parts == split(trimmed, "|")
                IN  IF Len(parts) >= 3
                    THEN LET section == parseInt(parts[1])
                             item == parseInt(parts[2])
                             value == join(SubSeq(parts, 3, Len(parts)), "|")
                         IN  IF ~isNaN(section) /\ ~isNaN(item)
                             THEN <<[section |-> section.val, item |-> item.val,
                                     value |-> value]>> \o rest
                             ELSE rest
                    ELSE rest

\* parseEditConf(content): the entries of the data lines, in file order
parseEditConf(content) == entriesOfLines(split(content, "\n"))

\* the section name table of the current schema, whatever the version
sectionIndexOf_currentOnly(isLegacy, r) ==
  IF r = 1 THEN SECTION_INDEX ELSE SECTION_NAMES

\* const sectionIndex = isLegacy ? SECTION_INDEX_LEGACY : SECTION_INDEX
sectionIndexOf(isLegacy, r) ==
  IF isLegacy
  THEN (IF r = 1 THEN SECTION_INDEX_LEGACY ELSE SECTION_INDEX_LEGACY_2)
  ELSE (IF r = 1 THEN SECTION_INDEX ELSE SECTION_NAMES)

\* the item table of the current schema, whatever the version
sectionItemsOf_currentOnly(isLegacy, r) ==
  IF r = 1 THEN SECTION_ITEMS ELSE OPTION_DAT_SECTION_ITEMS

\* const sectionItems = isLegacy ? SECTION_ITEMS_LEGACY : SECTION_ITEMS
sectionItemsOf(isLegacy, r) ==
  IF isLegacy
  THEN (IF r = 1 THEN SECTION_ITEMS_LEGACY ELSE SECTION_ITEMS_LEGACY_2)
  ELSE (IF r = 1 THEN SECTION_ITEMS ELSE OPTION_DAT_SECTION_ITEMS)

\* the loop of convertEditConfToSettings with the section created before the
\* item is looked up
RECURSIVE convertLoop_eagerSection(_, _, _, _)
convertLoop_eagerSection(entries, sectionIndex, sectionItems, settings) ==
  IF entries = <<>> THEN settings
  ELSE LET entry == Head(entries)
           rest == Tail(entries)
       IN  IF entry.section \notin DOMAIN sectionIndex
              \/ entry.section \notin DOMAIN sectionItems
           THEN convertLoop_eagerSection(rest, sectionIndex, sectionItems, settings)
           ELSE LET sectionName == sectionIndex[entry.section]
                    itemsMap == sectionItems[entry.section]
                    created == ensureSection(settings, sectionName)
                IN  IF entry.item \notin DOMAIN itemsMap
                    THEN convertLoop_eagerSection(rest, sectionIndex, sectionItems, created)
                    ELSE convertLoop_eagerSection(rest, sectionIndex, sectionItems,
                           setSetting(created, sectionName,
                                      itemsMap[entry.item], entry.value))

\* for (const entry of entries) { ... } of convertEditConfToSettings
RECURSIVE convertLoop(_, _, _, _)
convertLoop(entries, sectionIndex, sectionItems, settings) ==
  IF entries = <<>> THEN settings
  ELSE LET entry == Head(entries)
           rest == Tail(entries)
       IN  IF entry.section \notin DOMAIN sectionIndex
              \/ entry.section \notin DOMAIN sectionItems
           THEN convertLoop(rest, sectionIndex, sectionItems, settings)
           ELSE LET sectionName == sectionIndex[entry.section]
                    itemsMap == sectionItems[entry.section]
                IN  IF entry.item \notin DOMAIN itemsMap
                    THEN convertLoop(rest, sectionIndex, sectionItems, settings)
                    ELSE convertLoop(rest, sectionIndex, sectionItems,
                           setSetting(ensureSection(settings, sectionName),
                                      sectionName, itemsMap[entry.item], entry.value))

\* convertEditConfToSettings(entries, isLegacy), of revision r
convertEditConfToSettings(entries, isLegacy, r) ==
  convertLoop(entries, sectionIndexOf(isLegacy, r), sectionItemsOf(isLegacy, r), <<>>)

\* JSON.parse(JSON.stringify(base)): a copy with the same sections, keys
\* and string values in the same order
deepCopy(base) ==
  [i \in 1..Len(base) |->
     [name |-> base[i].name,
      items |-> [j \in 1..Len(base[i].items) |->
                   [key |-> base[i].items[j].key,
                    value |-> base[i].items[j].value]]]]

\* the inner loop of mergeSettings with a key of the base left as it is
RECURSIVE mergeItems_keepBase(_, _, _)
mergeItems_keepBase(merged, section, items) ==
  IF items = <<>> THEN merged
  ELSE mergeItems_keepBase(
         IF hasKey(getSection(merged, section), Head(items).key) THEN merged
         ELSE setSetting(merged, section, Head(items).key, Head(items).value),
         section, Tail(items))

\* for (const [key, value] of Object.entries(items)) merged[section][key] = value
RECURSIVE mergeItems(_, _, _)
mergeItems(merged, section, items) ==
  IF items = <<>> THEN merged
  ELSE mergeItems(setSetting(merged, section, Head(items).key, Head(items).value),
                  section, Tail(items))

\* for (const [section, items] of Object.entries(override)) { ... }
RECURSIVE mergeSections(_, _)
mergeSections(merged, override) ==
  IF override = <<>> THEN merged
  ELSE mergeSections(
         mergeItems(ensureSection(merged, Head(override).name),
                    Head(override).name, Head(override).items),
         Tail(override))

\* mergeSettings(base, override)
mergeSettings(base, override) == mergeSections(deepCopy(base), override)

\* getExecuterType(entries): value of the first 0|0 entry, or null
Null == <<"#null">>

RECURSIVE getExecuterType(_)
getExecuterType(entries) ==
  IF entries = <<>> THEN Null
  ELSE IF Head(entries).section = 0 /\ Head(entries).item = 0
       THEN Head(entries).value
       ELSE getExecuterType(Tail(entries))

\* the skipped sections without win9x
SkippedSections_noWin9x(r) ==
  IF r = 1 THEN {"default", "pcem", "separator"}
  ELSE {"default", "pcem", "separator", "glide"}

\* the sections settingsToConfString skips; revision 2 also skips glide
SkippedSections(r) ==
  IF r = 1 THEN {"default", "win9x", "pcem", "separator"}
  ELSE {"default", "win9x", "pcem", "separator", "glide"}

\* lines.push(`${key}=${value}`) for every item of a section
itemLines(items) ==
  [j \in 1..Len(items) |-> <<items[j].key, "=">> \o items[j].value]

\* for (const [section, items] of Object.entries(settings)) { ... }
RECURSIVE sectionLines(_, _)
sectionLines(settings, r) ==
  IF settings = <<>> THEN <<>>
  ELSE IF Len(settings) = 1
  THEN LET section == Head(settings).name
       IN  IF section \in SkippedSections(r) THEN <<>>
           ELSE << <<"[", section, "]">> >> \o itemLines(Head(settings).items)
                \o << <<>> >>
  ELSE LET half == Len(settings) \div 2
       IN  sectionLines(SubSeq(settings, 1, half), r)
           \o sectionLines(SubSeq(settings, half + 1, Len(settings)), r)

\* settingsToConfString(settings)
settingsToConfString(settings, r) == join(sectionLines(settings, r), "\n")

\* the line '[autoexec]'
AutoexecHeader == <<"[", "autoexec", "]">>

\* generateDosboxConf without lines.push('[autoexec]')
generateDosboxConf_noAutoexecLine(settings, autoexec, header, r) ==
  LET lines == (IF header # <<>> THEN <<header, <<>>>> ELSE <<>>)
               \o <<settingsToConfString(settings, r)>>
               \o <<autoexec>>
  IN  trim(join(lines, "\n"))

\* generateDosboxConf without the final trim()
generateDosboxConf_untrimmed(settings, autoexec, header, r) ==
  LET lines == (IF header # <<>> THEN <<header, <<>>>> ELSE <<>>)
               \o <<settingsToConfString(settings, r)>>
               \o <<AutoexecHeader, autoexec>>
  IN  join(lines, "\n")

\* generateDosboxConf(settings, autoexec, header); header <<>> when absent
generateDosboxConf(settings, autoexec, header, r) ==
  LET lines == (IF header # <<>> THEN <<header, <<>>>> ELSE <<>>)
               \o <<settingsToConfString(settings, r)>>
               \o <<AutoexecHeader, autoexec>>
  IN  trim(join(lines, "\n"))

\* the first entry 5|9|<non-empty value> of the list, or null
RECURSIVE mapperFileOf(_)
mapperFileOf(entries) ==
  IF entries = <<>> THEN Null
  ELSE IF Head(entries).section = 5 /\ Head(entries).item = 9
          /\ Head(entries).value # <<>>
       THEN Head(entries).value
       ELSE mapperFileOf(Tail(entries))

\* loadCfgFilePreset(cfgFile), presetContent being getPresetFile(cfgFile):
\* null when there is no preset, else the preset's executer and mapper file
loadCfgFilePreset(presetContent) ==
  IF presetContent = <<>> THEN [found |-> FALSE, executerName |-> Null, mapperFile |-> Null]
  ELSE LET entries == parseEditConf(presetContent)
       IN  [found |-> TRUE,
            executerName |-> getExecuterType(entries),
            mapperFile |-> mapperFileOf(entries)]

\* getWin9xSettingsWithPreset(cfgFile, editConfContent) of revision 2: the
\* settings are the compiled-in Win9x defaults; the preset and the override
\* file only give the executer name and the mapper file
getWin9xSettingsWithPreset(presetContent, editConfContent) ==
  LET presetResult == loadCfgFilePreset(presetContent)
      exec1 == IF presetResult.found THEN presetResult.executerName ELSE Null
      map1 == IF presetResult.found THEN presetResult.mapperFile ELSE Null
      entries == parseEditConf(editConfContent)
      editExecuter == getExecuterType(entries)
      editMapper == mapperFileOf(entries)
  IN  [settings |-> getDefaultWin9xSettings,
       executerName |->
         IF editConfContent # <<>> /\ editExecuter # Null /\ editExecuter # <<>>
         THEN editExecuter ELSE exec1,
       mapperFile |->
         IF editConfContent # <<>> /\ editMapper # Null THEN editMapper ELSE map1]

\* ------------------------------------------------------------------------
\* data/mapper/option-dat.ts, defaults.ts, template-loader.ts
\* ------------------------------------------------------------------------

\* getKeyForEditConfEntry(section, item): the current-schema pair, or null
getKeyForEditConfEntry(section, item) ==
  IF section \notin DOMAIN SECTION_NAMES
  THEN [found |-> FALSE, sectionName |-> "", keyName |-> ""]
  ELSE IF section \notin DOMAIN OPTION_DAT_SECTION_ITEMS
  THEN [found |-> FALSE, sectionName |-> "", keyName |-> ""]
  ELSE IF item \notin DOMAIN OPTION_DAT_SECTION_ITEMS[section]
  THEN [found |-> FALSE, sectionName |-> "", keyName |-> ""]
  ELSE [found |-> TRUE, sectionName |-> SECTION_NAMES[section],
        keyName |-> OPTION_DAT_SECTION_ITEMS[section][item]]

\* for (const line of lines) { ... } of parseEditConfFormat
RECURSIVE formatLoop(_, _)
formatLoop(lines, values) ==
  IF lines = <<>> THEN values
  ELSE LET trimmed == trim(Head(lines))
           rest == Tail(lines)
       IN  IF startsWith(trimmed, VerPrefix) \/ trimmed = <<>>
           THEN formatLoop(rest, values)
           ELSE LET parts == split(trimmed, "|")
                IN  IF Len(parts) >= 3
                    THEN LET section == parseInt(parts[1])
                             item == parseInt(parts[2])
                             value == join(SubSeq(parts, 3, Len(parts)), "|")
                             mapping == getKeyForEditConfEntry(section.val, item.val)
                         IN  IF ~isNaN(section) /\ ~isNaN(item) /\ mapping.found
                             THEN formatLoop(rest,
                                    setKey(values,
                                           <<mapping.sectionName, "_", mapping.keyName>>,
                                           value))
                             ELSE formatLoop(rest, values)
                    ELSE formatLoop(rest, values)

\* parseEditConfFormat(content): placeholder key -> value
parseEditConfFormat(content) == formatLoop(split(content, "\n"), <<>>)

\* for (const [key, value] of source) target.set(key, value)
RECURSIVE setAll(_, _)
setAll(target, source) ==
  IF source = <<>> THEN target
  ELSE setAll(setKey(target, Head(source).key, Head(source).value), Tail(source))

\* getDefaultValue(key): WIN9X_DEFAULTS[key] ?? ''
getDefaultValue(key) ==
  IF hasKey(WIN9X_DEFAULTS, key) THEN getKey(WIN9X_DEFAULTS, key) ELSE <<>>

\* the map the first loop of applyValuesToTemplate builds from
\* Object.entries(WIN9X_DEFAULTS): the keys of the object are distinct, so
\* the map holds exactly its entries, in its order
defaultValues == WIN9X_DEFAULTS

\* the callback with the default table asked before the value map
replacement_defaultFirst(key, mergedValues) ==
  LET defaultValue == getDefaultValue(key)
  IN  IF defaultValue # <<>> THEN defaultValue
      ELSE IF hasKey(mergedValues, key) THEN getKey(mergedValues, key)
      ELSE <<>>

\* the callback of result.replace(placeholderRegex, ...)
replacement(key, mergedValues) ==
  IF hasKey(mergedValues, key) THEN getKey(mergedValues, key)
  ELSE LET defaultValue == getDefaultValue(key)
       IN  IF defaultValue # <<>> THEN defaultValue ELSE <<>>

\* the index of the first "@" of s at or after i, 0 when there is none
nextAt(s, i) ==
  LET ats == {j \in i..Len(s) : s[j] = "@"}
  IN  IF ats = {} THEN 0 ELSE CHOOSE k \in ats : \A m \in ats : k <= m

\* template.replace(/@([^@]+)@/g, callback), scanning from index i
RECURSIVE replacePlaceholders(_, _, _)
replacePlaceholders(s, i, mergedValues) ==
  IF i > Len(s) THEN <<>>
  ELSE IF s[i] = "@"
       THEN LET close == nextAt(s, i + 1)
            IN  IF close > i + 1
                THEN replacement(SubSeq(s, i + 1, close - 1), mergedValues)
                     \o replacePlaceholders(s, close + 1, mergedValues)
                ELSE <<s[i]>> \o replacePlaceholders(s, i + 1, mergedValues)
       ELSE LET open == nextAt(s, i)
                stop == IF open = 0 THEN Len(s) + 1 ELSE open
            IN  SubSeq(s, i, stop - 1) \o replacePlaceholders(s, stop, mergedValues)

\* applyValuesToTemplate(template, values)
applyValuesToTemplate(template, values) ==
  LET mergedValues == setAll(defaultValues, values)
  IN  replacePlaceholders(template, 1, mergedValues)

\* String.prototype.toUpperCase, on a string given character by character
UpperOf ==
  ("a" :> "A" @@ "b" :> "B" @@ "c" :> "C" @@ "d" :> "D" @@ "e" :> "E" @@
   "f" :> "F" @@ "g" :> "G" @@ "h" :> "H" @@ "i" :> "I" @@ "j" :> "J" @@
   "k" :> "K" @@ "l" :> "L" @@ "m" :> "M" @@ "n" :> "N" @@ "o" :> "O" @@
   "p" :> "P" @@ "q" :> "Q" @@ "r" :> "R" @@ "s" :> "S" @@ "t" :> "T" @@
   "u" :> "U" @@ "v" :> "V" @@ "w" :> "W" @@ "x" :> "X" @@ "y" :> "Y" @@
   "z" :> "Z")

toUpperCase(s) ==
  [i \in 1..Len(s) |-> IF s[i] \in DOMAIN UpperOf THEN UpperOf[s[i]] ELSE s[i]]

\* a placeholder-bearing template is written as its segments: literal text
\* without "@", and tokens; unparse gives the template text
unparse(segs) ==
  LET RECURSIVE go(_)
      go(ss) == IF ss = <<>> THEN <<>>
                ELSE (IF Head(ss).kind = "tok"
                      THEN <<"@">> \o Head(ss).text \o <<"@">>
                      ELSE Head(ss).text) \o go(Tail(ss))
  IN  go(segs)

Lit(t) == [kind |-> "lit", text |-> t]
Tok(t) == [kind |-> "tok", text |-> t]

\* memsize=@dosbox_memsize@\ncore=@cpu_core@
TemplateMemCore ==
  <<Lit(<<"memsize", "=">>), Tok(<<"dosbox", "_", "memsize">>),
    Lit(<<"\n", "core", "=">>), Tok(<<"cpu", "_", "core">>)>>

\* [sdl]\nwindowposition=@sdl_windowposition@\nmapperfile=@sdl_mapperfile@\nextra=@no_such@\n
TemplateSdl ==
  <<Lit(<<"[", "sdl", "]", "\n", "windowposition", "=">>),
    Tok(<<"sdl", "_", "windowposition">>),
    Lit(<<"\n", "mapperfile", "=">>), Tok(<<"sdl", "_", "mapperfile">>),
    Lit(<<"\n", "extra", "=">>), Tok(<<"no", "_", "such">>),
    Lit(<<"\n">>)>>

\* @cpu_core@@dosbox_memsize@
TemplateAdjacent ==
  <<Tok(<<"cpu", "_", "core">>), Tok(<<"dosbox", "_", "memsize">>)>>

\* [dosbox]\n
TemplatePlain == <<Lit(<<"[", "dosbox", "]", "\n">>)>>

SampleTemplates == {TemplateMemCore, TemplateSdl, TemplateAdjacent, TemplatePlain}

\* the skeleton of a Windows variant: a comment line naming the variant,
\* the [sdl] skeleton, and an [autoexec] section that boots the guest
VariantTemplate(name) ==
  <<Lit(<<"#", " ">> \o name \o <<"\n">>)>> \o TemplateSdl
    \o <<Lit(<<"[", "autoexec", "]", "\n", "boot", "\n">>)>>

\* TEMPLATES: template type -> template text.  The bundled template files
\* are data, not code; each type stands for a sample skeleton of its own.
TEMPLATES ==
  ("W98KR-x" :> VariantTemplate(<<"W", "9", "8", "KR", "-", "x">>) @@
   "W95KR-x" :> VariantTemplate(<<"W", "9", "5", "KR", "-", "x">>) @@
   "W98JP-x" :> VariantTemplate(<<"W", "9", "8", "JP", "-", "x">>) @@
   "W95JP-x" :> VariantTemplate(<<"W", "9", "5", "JP", "-", "x">>) @@
   "W98EN-x" :> VariantTemplate(<<"W", "9", "8", "EN", "-", "x">>) @@
   "W95EN-x" :> VariantTemplate(<<"W", "9", "5", "EN", "-", "x">>) @@
   "DOSBox-x" :> TemplateMemCore)

\* getTemplateForExecuter with the variant rules asking for the tag only
getTemplateForExecuter_tagOnly(executerName) ==
  LET executer == toUpperCase(executerName)
  IN  IF includes(executer, <<"W", "9", "8", "K", "R">>) THEN "W98KR-x"
      ELSE IF includes(executer, <<"W", "9", "5", "K", "R">>) THEN "W95KR-x"
      ELSE IF includes(executer, <<"W", "9", "8", "J", "P">>) THEN "W98JP-x"
      ELSE IF includes(executer, <<"W", "9", "5", "J", "P">>) THEN "W95JP-x"
      ELSE IF includes(executer, <<"W", "9", "8", "E", "N">>) THEN "W98EN-x"
      ELSE IF includes(executer, <<"W", "9", "5", "E", "N">>) THEN "W95EN-x"
      ELSE "DOSBox-x"

\* getTemplateForExecuter(executerName): the type whose template is returned
getTemplateForExecuter(executerName) ==
  LET executer == toUpperCase(executerName)
      X == <<"-", "X">>
  IN  IF includes(executer, <<"W", "9", "8", "K", "R">>) /\ includes(executer, X) THEN "W98KR-x"
      ELSE IF includes(executer, <<"W", "9", "5", "K", "R">>) /\ includes(executer, X) THEN "W95KR-x"
      ELSE IF includes(executer, <<"W", "9", "8", "J", "P">>) /\ includes(executer, X) THEN "W98JP-x"
      ELSE IF includes(executer, <<"W", "9", "5", "J", "P">>) /\ includes(executer, X) THEN "W95JP-x"
      ELSE IF includes(executer, <<"W", "9", "8", "E", "N">>) /\ includes(executer, X) THEN "W98EN-x"
      ELSE IF includes(executer, <<"W", "9", "5", "E", "N">>) /\ includes(executer, X) THEN "W95EN-x"
      ELSE IF includes(executer, <<"D", "O", "S", "B", "O", "X", "-", "X">>)
              \/ executer = <<"D", "O", "S", "B", "o", "x", "-", "x">>
           THEN "DOSBox-x"
      ELSE "DOSBox-x"

\* the value map of generateDosboxXConfig: the preset's values, then the
\* override file's values over them
templateValues(cfgFileContent, editConfContent) ==
  LET v1 == IF cfgFileContent # <<>>
            THEN setAll(<<>>, parseEditConfFormat(cfgFileContent)) ELSE <<>>
  IN  IF editConfContent # <<>>
      THEN setAll(v1, parseEditConfFormat(editConfContent)) ELSE v1

\* throw new Error(`No template found for executer: ${executerName}`)
NoTemplateError == <<"No template found for executer">>

\* generateDosboxXConfig(executerName, cfgFileContent, editConfContent): the
\* error it throws, or null and the text it returns
generateDosboxXConfig(executerName, cfgFileContent, editConfContent) ==
  LET template == unparse(TEMPLATES[getTemplateForExecuter(executerName)])
  IN  IF template = <<>>
      THEN [thrown |-> NoTemplateError, value |-> <<>>]
      ELSE [thrown |-> Null,
            value |-> applyValuesToTemplate(template,
                        templateValues(cfgFileContent, editConfContent))]

\* ------------------------------------------------------------------------
\* Win9x display settings: services/dosbox-settings.ts, template-loader.ts
\* ------------------------------------------------------------------------

\* the length of the run of decimal digits of s that starts at index i
RECURSIVE digitRun(_, _)
digitRun(s, i) ==
  IF i <= Len(s) /\ s[i] \in Digits THEN 1 + digitRun(s, i + 1) ELSE 0

\* value.match(/(\d+)x(\d+)/) tried at index i: a run of digits, an x and a
\* digit follow
matchesAt(s, i) ==
  LET n == digitRun(s, i)
  IN  /\ n > 0
      /\ i + n + 1 <= Len(s)
      /\ s[i + n] = "x"
      /\ s[i + n + 1] \in Digits

\* value.match(/(\d+)x(\d+)/): the two groups of the leftmost match, or null
match9xres(s) ==
  LET starts == {i \in 1..Len(s) : matchesAt(s, i)}
  IN  IF starts = {} THEN [found |-> FALSE, g1 |-> <<>>, g2 |-> <<>>]
      ELSE LET i == CHOOSE k \in starts : \A j \in starts : k <= j
               n == digitRun(s, i)
               m == digitRun(s, i + n + 1)
           IN  [found |-> TRUE,
                g1 |-> SubSeq(s, i, i + n - 1),
                g2 |-> SubSeq(s, i + n + 1, i + n + m)]

\* heightMap with the 1280 row of parseResolutionString (1280x1024)
heightMap_sxga ==
  (640 :> 480 @@ 800 :> 600 @@ 1024 :> 768 @@ 1152 :> 864 @@ 1280 :> 1024 @@
   1600 :> 1200)

\* heightMap of parse9xResolution
heightMap ==
  (640 :> 480 @@ 800 :> 600 @@ 1024 :> 768 @@ 1152 :> 864 @@ 1280 :> 960 @@
   1600 :> 1200)

\* { width: 640, height: 480, bitsPerPixel: 8 }
DefaultResolution == [width |-> 640, height |-> 480, bitsPerPixel |-> 8]

\* parse9xResolution(value)
parse9xResolution(value) ==
  LET match == match9xres(value)
  IN  IF ~match.found \/ match.g1 = <<>> \/ match.g2 = <<>>
      THEN DefaultResolution
      ELSE LET width == parseInt(match.g1).val
               bitsPerPixel == parseInt(match.g2).val
               height == IF width \in DOMAIN heightMap /\ heightMap[width] # 0
                         THEN heightMap[width] ELSE 480
           IN  [width |-> width, height |-> height, bitsPerPixel |-> bitsPerPixel]

\* the defaults with the CD volume at the maximum like the other volumes
Win9xDefaults_cdMax ==
  [resolution |-> DefaultResolution,
   ddraw |-> TRUE, d3d |-> TRUE, threeDfx |-> TRUE,
   midiDriver |-> "SBFM",
   volumes |-> [master |-> 255, wave |-> 255, midi |-> 255, cd |-> 255]]

\* the literal `defaults` of extractWin9xSettings / extractWin9xDisplaySettings
Win9xDefaults ==
  [resolution |-> DefaultResolution,
   ddraw |-> TRUE, d3d |-> TRUE, threeDfx |-> TRUE,
   midiDriver |-> "SBFM",
   volumes |-> [master |-> 255, wave |-> 255, midi |-> 255, cd |-> 128]]

\* parseInt(value, 10) with the fallback for NaN only
parseIntOr_keepZero(value, fallback) ==
  LET n == parseInt(value)
  IN  IF isNaN(n) THEN fallback ELSE n.val

\* parseInt(value, 10) || fallback
parseIntOr(value, fallback) ==
  LET n == parseInt(value)
  IN  IF isNaN(n) \/ n.val = 0 THEN fallback ELSE n.val

\* value === 'MPU401' ? 'MPU401' : 'SBFM'
midiDriverOf(value) ==
  IF value = <<"MPU", "4", "0", "1">> THEN "MPU401" ELSE "SBFM"

\* the loop body without the test of the section
applyWin9xEntry_anySection(defaults, entry, isLegacy) ==
  IF isLegacy /\ entry.section = 21 /\ entry.item = 1
  THEN [defaults EXCEPT !.resolution = parse9xResolution(entry.value)]
  ELSE IF entry.item = 1
       THEN [defaults EXCEPT !.resolution = parse9xResolution(entry.value)]
  ELSE IF entry.item = 2 THEN [defaults EXCEPT !.ddraw = (entry.value = <<"true">>)]
  ELSE IF entry.item = 3 THEN [defaults EXCEPT !.d3d = (entry.value = <<"true">>)]
  ELSE IF entry.item = 4 THEN [defaults EXCEPT !.threeDfx = (entry.value = <<"true">>)]
  ELSE IF entry.item = 5 THEN [defaults EXCEPT !.midiDriver = midiDriverOf(entry.value)]
  ELSE IF entry.item = 6
       THEN [defaults EXCEPT !.volumes.master = parseIntOr(entry.value, 255)]
  ELSE IF entry.item = 7
       THEN [defaults EXCEPT !.volumes.wave = parseIntOr(entry.value, 255)]
  ELSE IF entry.item = 8
       THEN [defaults EXCEPT !.volumes.midi = parseIntOr(entry.value, 255)]
  ELSE IF entry.item = 9
       THEN [defaults EXCEPT !.volumes.cd = parseIntOr(entry.value, 128)]
  ELSE defaults

\* the body of the loop of extractWin9xSettings for one entry
applyWin9xEntry(defaults, entry, isLegacy) ==
  IF isLegacy /\ entry.section = 21 /\ entry.item = 1
  THEN [defaults EXCEPT !.resolution = parse9xResolution(entry.value)]
  ELSE IF entry.section # 1 THEN defaults
  ELSE IF entry.item = 1
       THEN [defaults EXCEPT !.resolution = parse9xResolution(entry.value)]
  ELSE IF entry.item = 2 THEN [defaults EXCEPT !.ddraw = (entry.value = <<"true">>)]
  ELSE IF entry.item = 3 THEN [defaults EXCEPT !.d3d = (entry.value = <<"true">>)]
  ELSE IF entry.item = 4 THEN [defaults EXCEPT !.threeDfx = (entry.value = <<"true">>)]
  ELSE IF entry.item = 5 THEN [defaults EXCEPT !.midiDriver = midiDriverOf(entry.value)]
  ELSE IF entry.item = 6
       THEN [defaults EXCEPT !.volumes.master = parseIntOr(entry.value, 255)]
  ELSE IF entry.item = 7
       THEN [defaults EXCEPT !.volumes.wave = parseIntOr(entry.value, 255)]
  ELSE IF entry.item = 8
       THEN [defaults EXCEPT !.volumes.midi = parseIntOr(entry.value, 255)]
  ELSE IF entry.item = 9
       THEN [defaults EXCEPT !.volumes.cd = parseIntOr(entry.value, 128)]
  ELSE defaults

\* for (const entry of entries) { ... } of extractWin9xSettings
RECURSIVE win9xLoop(_, _, _)
win9xLoop(defaults, entries, isLegacy) ==
  IF entries = <<>> THEN defaults
  ELSE win9xLoop(applyWin9xEntry(defaults, Head(entries), isLegacy),
                 Tail(entries), isLegacy)

\* extractWin9xSettings(entries, isLegacy)
extractWin9xSettings(entries, isLegacy) == win9xLoop(Win9xDefaults, entries, isLegacy)

\* values.get(key) when the map has the key with a non-empty string
truthy(values, key) == hasKey(values, key) /\ getKey(values, key) # <<>>

\* the placeholder key 'win9x_<name>'
win9xKey(name) == <<"win9x", "_", name>>

\* extractWin9xDisplaySettings(values)
extractWin9xDisplaySettings(values) ==
  LET get(name) == getKey(values, win9xKey(name))
      has(name) == truthy(values, win9xKey(name))
  IN  [resolution |-> IF has("9xres") THEN parse9xResolution(get("9xres"))
                      ELSE DefaultResolution,
       ddraw |-> IF has("9xddraw") THEN get("9xddraw") = <<"true">> ELSE TRUE,
       d3d |-> IF has("9xd3d") THEN get("9xd3d") = <<"true">> ELSE TRUE,
       threeDfx |-> IF has("9x3dfx") THEN get("9x3dfx") = <<"true">> ELSE TRUE,
       midiDriver |-> IF has("9xmpu") THEN midiDriverOf(get("9xmpu")) ELSE "SBFM",
       volumes |->
         [master |-> IF has("9xmaster") THEN parseIntOr(get("9xmaster"), 255) ELSE 255,
          wave |-> IF has("9xwave") THEN parseIntOr(get("9xwave"), 255) ELSE 255,
          midi |-> IF has("9xmidi") THEN parseIntOr(get("9xmidi"), 255) ELSE 255,
          cd |-> IF has("9xcd") THEN parseIntOr(get("9xcd"), 128) ELSE 128]]

\* getWin9xDisplaySettingsFromEditConf(cfgFileContent, editConfContent)
getWin9xDisplaySettingsFromEditConf(cfgFileContent, editConfContent) ==
  extractWin9xDisplaySettings(templateValues(cfgFileContent, editConfContent))

\* ------------------------------------------------------------------------
\* services/config-parser.ts
\* ------------------------------------------------------------------------

\* a field of W98krConfig that has not been assigned
Undefined == <<"#undefined">>

\* const config: W98krConfig = {}
EmptyW98krConfig ==
  [w98krName |-> Undefined, memsize |-> [defined |-> FALSE, val |-> 0],
   cpuCore |-> Undefined, cpuType |-> Undefined, cpuCycles |-> Undefined,
   mouseEmulation |-> Undefined]

\* the body of the loop of parseW98krConf for one trimmed, non-empty line
applyW98krLine(config, line) ==
  IF startsWith(line, VerPrefix) THEN config
  ELSE LET parts == split(line, "|")
       IN  IF Len(parts) >= 3 /\ parts[1] # <<>> /\ parts[2] # <<>> /\ parts[3] # <<>>
           THEN LET code == parts[1]
                    subCode == parts[2]
                    value == parts[3]
                IN  IF code = <<"0">> /\ subCode = <<"0">>
                    THEN [config EXCEPT !.w98krName = value]
                    ELSE IF code = <<"7">> /\ subCode = <<"3">>
                    THEN LET num == parseInt(value)
                         IN  IF ~isNaN(num)
                             THEN [config EXCEPT !.memsize = [defined |-> TRUE, val |-> num.val]]
                             ELSE config
                    ELSE IF code = <<"8">> /\ subCode = <<"0">>
                    THEN [config EXCEPT !.cpuCore = value]
                    ELSE IF code = <<"8">> /\ subCode = <<"1">>
                    THEN [config EXCEPT !.cpuType = value]
                    ELSE IF code = <<"8">> /\ subCode = <<"2">>
                    THEN [config EXCEPT !.cpuCycles = value]
                    ELSE IF code = <<"2", "0">> /\ subCode = <<"0">>
                    THEN [config EXCEPT !.mouseEmulation = value]
                    ELSE config
           ELSE config

\* for (const line of lines) { ... } of parseW98krConf
RECURSIVE w98krLoop(_, _)
w98krLoop(config, lines) ==
  IF lines = <<>> THEN config
  ELSE LET line == trim(Head(lines))
       IN  w98krLoop(IF line = <<>> THEN config ELSE applyW98krLine(config, line),
                     Tail(lines))

\* parseW98krConf(content)
parseW98krConf(content) == w98krLoop(EmptyW98krConfig, split(content, "\n"))

\* parseEditConf(content) of config-parser.ts: the executer name and the
\* display settings of the file, read under the file's own version
parseEditConfDisplay(content) ==
  LET ver == parseEditConfVersion(content)
      legacy == isLegacyVersion(ver)
      es == parseEditConf(content)
  IN  [version |-> ver, isLegacy |-> legacy, entries |-> es,
       win9xSettings |-> extractWin9xSettings(es, legacy),
       executerName |-> getExecuterType(es)]

\* ------------------------------------------------------------------------
\* Objects and references.  Strings and numbers are values; settings maps,
\* entry arrays and Maps are objects that a callee reaches through the
\* references it is handed.  The heap gives the contents of the objects
\* that outlive a call: the arguments of the call, the object the call
\* allocates and returns, and the default table of defaults.ts.
\* ------------------------------------------------------------------------

Refs == {"base", "override", "entries", "values", "new", "WIN9X_DEFAULTS"}

\* the heap at process start: the default table, and no object yet behind
\* the other references
InitialHeap == [r \in Refs |-> IF r = "WIN9X_DEFAULTS" THEN WIN9X_DEFAULTS ELSE <<>>]

\* an object literal, new Map() or JSON.parse(...): a new object with the
\* given contents; its reference is "new"
alloc(h, contents) == [h EXCEPT !["new"] = contents]

\* mergeSettings with const merged = base: the loops write into the
\* caller's object
mergeSettingsOn_noCopy(h, base, override) ==
  LET merged == base
  IN  [heap |-> [h EXCEPT ![merged] = mergeSections(h[merged], h[override])],
       ref |-> merged]

\* mergeSettings(base, override) on references: merged is the new object of
\* JSON.parse(JSON.stringify(base)), and the loops write into merged only
mergeSettingsOn(h, base, override) ==
  LET h1 == alloc(h, deepCopy(h[base]))
      merged == "new"
  IN  [heap |-> [h1 EXCEPT ![merged] = mergeSections(h1[merged], h1[override])],
       ref |-> merged]

\* extractWin9xSettings(entries, isLegacy) on references: defaults is the
\* new object of the literal, and the loop writes into defaults only
extractWin9xSettingsOn(h, entries, isLegacy) ==
  LET h1 == alloc(h, Win9xDefaults)
      defaults == "new"
  IN  [heap |-> [h1 EXCEPT ![defaults] = win9xLoop(h1[defaults], h1[entries], isLegacy)],
       ref |-> defaults]

\* applyValuesToTemplate(template, values) on references: mergedValues is a
\* new Map, filled from Object.entries(WIN9X_DEFAULTS) and from values
applyValuesToTemplateOn(h, template, values) ==
  LET h1 == alloc(h, h["WIN9X_DEFAULTS"])
      mergedValues == "new"
      h2 == [h1 EXCEPT ![mergedValues] = setAll(h1[mergedValues], h1[values])]
  IN  [heap |-> h2,
       value |-> replacePlaceholders(template, 1, h2[mergedValues])]

\* ------------------------------------------------------------------------
\* services/launcher.ts (src/src/services/tistory.ts:369-2000)
\* ------------------------------------------------------------------------

\* paths of the host file system: opaque pieces
GameDir == "/games/g"
DosUtilDir == "/app/dosutil"
GusDir == "/app/gus"
CdImagePath == "/games/g/cd.iso"

\* option.commands of the selected execution option
OptionCommands == << <<"GAME", ".", "EXE">> >>

\* the header comment of the DOS configuration
DosHeader ==
  <<"#", " ", "DOSBox", "-", "X", " ", "configuration", " ", "for", " ", "DOS",
    " ", "game", "\n", "#", " ", "Auto", "-", "generated", " ", "by", " ",
    "doogie", "-", "cli">>

\* the header comment of the Windows 98 configuration
W98Header ==
  <<"#", " ", "DOSBox", "-", "X", " ", "configuration", " ", "for", " ",
    "Windows", " ", "9", "8", " ", "(", "W", "9", "8", "KR", ")", "\n", "#",
    " ", "Auto", "-", "generated", " ", "by", " ", "doogie", "-", "cli">>

\* each command of the option followed by a newline
RECURSIVE commandLines(_)
commandLines(cmds) ==
  IF cmds = <<>> THEN <<>>
  ELSE Head(cmds) \o <<"\n">> \o commandLines(Tail(cmds))

\* the autoexec script generateDosboxConfigWithOptions builds; the three
\* flags are the results of existsSync(dosUtilDir), existsSync(gusDir) and
\* findCdImage(gameDir); the option has no addkeyCommands
dosAutoexec(hasDosUtil, hasGus, hasCd) ==
  <<"@", "echo", " ", "off", "\n">>
  \o <<"mount", " ", "c", " ", "\"", GameDir, "\"", " ", ">", " ", "nul", "\n">>
  \o <<"c", ":", "\n">>
  \o (IF hasDosUtil
      THEN <<"mount", " ", "x", " ", "\"", DosUtilDir, "\"", " ", ">", " ", "nul", "\n">>
           \o <<"CALL", " ", "X", ":", "\\", "PATH", ".", "BAT", " ", ">", " ", "nul", "\n">>
      ELSE <<>>)
  \o (IF hasGus
      THEN <<"mount", " ", "y", " ", "\"", GusDir, "\"", " ", ">", " ", "nul", "\n">>
           \o <<"SET", " ", "PROPATS", "=", "Y", ":", "\\", "PPL", "1", "6", "1", " ", ">", " ", "nul", "\n">>
      ELSE <<>>)
  \o (IF hasDosUtil
      THEN <<"SET", " ", "SOUND", "=", "X", ":", "\\", "SB", "1", "6", " ", ">", " ", "nul", "\n">>
           \o <<"SET", " ", "MIDI", "=", "SYNTH", ":", "1", " ", "MAP", ":", "E", " ", ">", " ", "nul", "\n">>
           \o <<"X", ":", "\\", "SB", "1", "6", "\\", "DIAGNOSE", " ", "/", "S", " ", ">", " ", "nul", "\n">>
           \o <<"X", ":", "\\", "SB", "1", "6", "\\", "MIXERSET", " ", "/", "P", " ", "/", "Q", " ", ">", " ", "nul", "\n">>
      ELSE <<>>)
  \o <<"MIXER", " ", "MASTER", " ", "1", "0", "0", " ", "SPKR", " ", "1", "0", "0",
       " ", "GUS", " ", "1", "0", "0", " ", "SB", " ", "6", "0", " ", "FM", " ",
       "6", "0", " ", "MT", "3", "2", " ", "1", "0", "0", " ", "CDAUDIO", " ",
       "1", "0", "0", " ", ">", " ", "nul", "\n">>
  \o (IF hasCd
      THEN <<"imgmount", " ", "d", " ", "\"", CdImagePath, "\"", " ", "-", "t", " ", "cdrom", " ", ">", " ", "nul", "\n">>
      ELSE <<>>)
  \o commandLines(OptionCommands)
  \o <<"exit", "\n">>

\* the autoexec script generateW98krConfig builds: the mounts, registry and
\* volume commands of the guest (one opaque piece), then the boot command
w98Autoexec ==
  <<"@", "echo", " ", "off", "\n">>
  \o <<"<guest mounts and registry commands>", "\n">>
  \o <<"boot", " ", "-", "l", " ", "C", " ", ">", " ", "nul", "\n">>

\* ------------------------------------------------------------------------
\* Inputs
\* ------------------------------------------------------------------------

\* version marker lines of an override file
VerLegacy == <<"ver", ".", "2", "1", ".", "1", "2", ".", "3", "1">>
VerCurrent == <<"ver", ".", "2", "2", ".", "0", "0", ".", "0", "0">>

SampleVersionLines == {VerLegacy, VerCurrent}

\* data lines of an override file
Line_7_3_256 == <<"7", "|", "3", "|", "2", "5", "6">>
Line_3_3_256 == <<"3", "|", "3", "|", "2", "5", "6">>
Line_99_99 == <<"9", "9", "|", "9", "9", "|", "anything">>
Line_21_1 == <<"2", "1", "|", "1", "|", "8", "0", "0", "x", "8">>
Line_8_0 == <<"8", "|", "0", "|", "auto">>
Line_6_0 == <<"6", "|", "0", "|", "auto">>
Line_19_0 == <<"1", "9", "|", "0", "|", "emu">>
Line_0_0 == <<"0", "|", "0", "|", "W", "9", "8", "KR", "-", "x">>
Line_6_99 == <<"6", "|", "9", "9", "|", "x">>
Line_1_1 == <<"1", "|", "1", "|", "6", "4", "0", "x", "8">>

SampleLines ==
  {Line_7_3_256, Line_3_3_256, Line_99_99, Line_21_1, Line_8_0, Line_6_0,
   Line_19_0, Line_0_0, Line_6_99, Line_1_1}

\* the sequences of at most n elements of S
RECURSIVE SeqsUpTo(_, _)
SeqsUpTo(S, n) ==
  IF n = 0 THEN {<<>>}
  ELSE SeqsUpTo(S, n - 1)
       \cup {Append(b, l) : b \in {x \in SeqsUpTo(S, n - 1) : Len(x) = n - 1},
                            l \in S}

\* the sequences of at most n sample data lines
LinesUpTo(n) == SeqsUpTo(SampleLines, n)

\* an override file: an optional version marker line, then the data lines
EditConfFiles ==
  {join(v \o b, "\n") : v \in {<<>>} \cup {<<m>> : m \in SampleVersionLines},
                        b \in LinesUpTo(MaxEntries)}

\* data lines that try the entry parsers: a negative and a not purely
\* numeric address, no number, two parts only, an empty first part, a value
\* with delimiters, an executer name with a delimiter, an empty value, a
\* blank before a number, and three well-formed lines
Line_neg == <<"-", "1", "|", "2", "|", "x">>
Line_3abc == <<"3", "abc", "|", "1", "|", "x">>
Line_abc == <<"abc", "|", "1", "|", "x">>
Line_twoParts == <<"1", "|", "2">>
Line_emptyFirst == <<"|", "1", "|", "x">>
Line_7_3_pipes == <<"7", "|", "3", "|", "a", "|", "b">>
Line_0_0_pipe == <<"0", "|", "0", "|", "W", "9", "8", "|", "KR">>
Line_7_3_empty == <<"7", "|", "3", "|">>
Line_6_blank0 == <<"6", "|", " ", "0", "|", "auto">>
Line_5_9 == <<"5", "|", "9", "|", "mapper", ".", "txt">>

ParseLines ==
  {Line_neg, Line_3abc, Line_abc, Line_twoParts, Line_emptyFirst,
   Line_7_3_pipes, Line_0_0_pipe, Line_7_3_empty, Line_6_blank0, Line_5_9,
   Line_6_0, Line_7_3_256}

\* version marker lines that are not of the form ver.YY.MM.DD
VerLetters == <<"ver", ".", "abc">>
VerBare == <<"ver", ".">>
VerMixed == <<"ver", ".", "2", "2", ".", "xx", ".", "0", "1">>
VerSuffixed == <<"ver", ".", "2", "3", ".", "0", "1", ".", "1", "0", "beta">>

MalformedVersionLines == {VerLetters, VerBare, VerMixed, VerSuffixed}

\* an override file of the parser family: an optional version marker line,
\* well-formed or not, then at most one data line
ParseFiles ==
  {join(v \o b, "\n") :
     v \in {<<>>} \cup {<<m>> : m \in SampleVersionLines \cup MalformedVersionLines},
     b \in SeqsUpTo(ParseLines, 1)}

\* largest number of data lines in a file of the display family
MaxDisplayEntries == 2

\* data lines of the win9x display slots, the aliased legacy address 21|1
\* and one line outside the display slots
Line_1_1_800x16 == <<"1", "|", "1", "|", "8", "0", "0", "x", "1", "6">>
Line_21_1_1024x32 == <<"2", "1", "|", "1", "|", "1", "0", "2", "4", "x", "3", "2">>
Line_1_2_false == <<"1", "|", "2", "|", "false">>
Line_1_5_MPU401 == <<"1", "|", "5", "|", "MPU", "4", "0", "1">>
Line_1_6_100 == <<"1", "|", "6", "|", "1", "0", "0">>
Line_1_9_0 == <<"1", "|", "9", "|", "0">>

DisplayLines ==
  {Line_1_1_800x16, Line_21_1_1024x32, Line_1_2_false, Line_1_5_MPU401,
   Line_1_6_100, Line_1_9_0, Line_7_3_256}

\* an override file of the display family
DisplayFiles ==
  {join(v \o b, "\n") : v \in {<<>>} \cup {<<m>> : m \in SampleVersionLines},
                        b \in SeqsUpTo(DisplayLines, MaxDisplayEntries)}

\* resolution strings handed to parse9xResolution
SampleResolutions ==
  {<<"8", "0", "0", "x", "1", "6">>, <<"6", "4", "0", "x", "8">>,
   <<"1", "0", "2", "4", "x", "3", "2">>, <<"1", "1", "5", "2", "x", "1", "6">>,
   <<"1", "2", "8", "0", "x", "3", "2">>, <<"1", "6", "0", "0", "x", "3", "2">>,
   <<"3", "2", "0", "x", "8">>, <<"garbage">>, <<>>,
   <<"8", "0", "0", "x">>, <<"x", "1", "6">>,
   <<"abc", "8", "0", "0", "x", "1", "6", "def">>,
   <<"1", "x", "2", "x", "3">>, <<"8", "0", "0", "X", "1", "6">>}

\* preset (CFGFILE) contents; <<>> when the option names no preset
PresetNormal ==
  join(<<VerCurrent,
         <<"0", "|", "0", "|", "W", "9", "8", "KR", "-", "x">>,
         <<"8", "|", "0", "|", "normal">>,
         <<"7", "|", "3", "|", "6", "4">>>>, "\n")

SamplePresets == {<<>>, PresetNormal}

\* executer names, character by character: W98KR-x, DOSBox-x, '', the
\* lower-case w95kr-x, W98KR without -x, PCem, and W95KR W98KR-x, which
\* two variant rules match
ExecW98KRx == <<"W", "9", "8", "K", "R", "-", "x">>
ExecDOSBoxx == <<"D", "O", "S", "B", "o", "x", "-", "x">>
ExecLowerW95KRx == <<"w", "9", "5", "k", "r", "-", "x">>
ExecW98KR == <<"W", "9", "8", "K", "R">>
ExecPCem == <<"P", "C", "e", "m">>
ExecTwoTags ==
  <<"W", "9", "5", "K", "R", " ", "W", "9", "8", "K", "R", "-", "x">>

SampleExecuters ==
  {ExecW98KRx, ExecDOSBoxx, <<>>, ExecLowerW95KRx, ExecW98KR, ExecPCem, ExecTwoTags}

\* settings maps handed to mergeSettings as base
BaseMemsize16 ==
  <<[name |-> "dosbox", items |-> <<[key |-> "memsize", value |-> <<"1", "6">>]>>]>>

BaseWithPseudo ==
  <<[name |-> "default", items |-> <<[key |-> "version", value |-> <<"x">>]>>],
    [name |-> "dosbox", items |-> <<[key |-> "memsize", value |-> <<"1", "6">>],
                                    [key |-> "machine", value |-> <<"svga", "_", "s", "3">>]>>],
    [name |-> "separator", items |-> <<>>]>>

SampleBases == {<<>>, BaseMemsize16, BaseWithPseudo}

\* autoexec scripts handed to generateDosboxConf
ScriptExit == <<"exit", "\n">>

SampleScripts == {ScriptExit, <<>>, <<"\n", "game", "\n", " ">>}

\* ------------------------------------------------------------------------
\* State
\* ------------------------------------------------------------------------

VARIABLES
  rev,               \* revision of services/dosbox-settings.ts in the build
  pc,                \* "ready", or the operation that has run
  editConfContent,   \* text of the per-game override file, <<>> if none
  cfgFileContent,    \* text of the preset the option names, <<>> if none
  executer,          \* executer name handed to generateDosboxXConfig
  version,           \* parseEditConfVersion(editConfContent)
  isLegacy,          \* schema version used to resolve the override file
  entries,           \* parseEditConf(editConfContent)
  overrideSettings,  \* convertEditConfToSettings(entries, isLegacy)
  baseSettings,      \* the settings map the override is merged into
  settings,          \* the settings map of the last operation
  autoexec,          \* the autoexec script
  header,            \* the header comment, <<>> if none
  templateSegs,      \* the template, as segments
  values,            \* the value map of the template engine
  executerName,      \* executer name found in preset / override file
  mapperFile,        \* mapper file found in preset / override file
  config,            \* the generated configuration text
  thrown,            \* the error the last operation threw, null if none
  resText,           \* the string handed to parse9xResolution
  resolution,        \* the result of parse9xResolution
  win9xSettings,     \* the Win9x display settings extracted last
  w98krConfig,       \* the result of parseW98krConf
  heap,              \* the contents of the objects, by reference
  tasks,             \* downloadFiles: the state of each download task
  downloadFilesPromise,  \* downloadFiles: the state of the promise it awaits
  defaultConf,  \* processTemplate: the lines of Default.conf from the SDL start line on
  attempt,  \* downloadFileWithRetry: the loop variable
  lastError,  \* downloadFileWithRetry: the error of the last failed attempt
  retryPc,  \* downloadFileWithRetry: where the call stands
  retryThrown,  \* downloadFileWithRetry: the error the call has thrown
  fetches,  \* downloadFileWithRetry: the number of attempts started
  errors,  \* downloadFileWithRetry: the errors of the failed attempts, in order
  sleeps,  \* downloadFileWithRetry: the waits so far, in ms
  listing,  \* extractGameArchive: what readdir returned
  present,  \* extractGameArchive: the files now in the game directory
  toUnlink,  \* extractGameArchive: the game files the loop has yet to delete
  extractPc,  \* extractGameArchive: where the call stands
  run7zOutcome,  \* extractGameArchive: how the 7z process ended
  extractError,  \* extractGameArchive: the error the call has thrown
  parsedLines,  \* parseMenuItems: the parsed lines of the menu
  stack,  \* parseMenuItems: the activations of the function, the running one last
  menuPc,  \* parseMenuItems: where the outermost call stands
  menuEndIdx  \* parseMenuItems: the endIdx the outermost call returned

vars ==
  <<rev, pc, editConfContent, cfgFileContent, executer, version, isLegacy,
    entries, overrideSettings, baseSettings, settings, autoexec, header,
    templateSegs, values, executerName, mapperFile, config, thrown,
    resText, resolution, win9xSettings, w98krConfig, heap,
    tasks, downloadFilesPromise,
    defaultConf,
    attempt, lastError, retryPc, retryThrown, fetches, errors, sleeps,
    listing, present, toUnlink, extractPc, run7zOutcome, extractError,
    parsedLines, stack, menuPc, menuEndIdx>>

\* the variables of the configuration core, but for pc
coreVars ==
  <<rev, editConfContent, cfgFileContent, executer, version, isLegacy,
    entries, overrideSettings, baseSettings, settings, autoexec, header,
    templateSegs, values, executerName, mapperFile, config, thrown,
    resText, resolution, win9xSettings, w98krConfig, heap>>

\* the variables of the download, extraction and menu services
ioVars == <<tasks, downloadFilesPromise,
    defaultConf,
    attempt, lastError, retryPc, retryThrown, fetches, errors, sleeps,
    listing, present, toUnlink, extractPc, run7zOutcome, extractError,
    parsedLines, stack, menuPc, menuEndIdx>>

\* the variables of parseMenuItems
menuVars == <<parsedLines, stack, menuPc, menuEndIdx>>

\* the variables of extractGameArchive
extractVars == <<listing, present, toUnlink, extractPc, run7zOutcome, extractError>>

\* the variables of downloadFileWithRetry
retryVars == <<attempt, lastError, retryPc, retryThrown, fetches, errors, sleeps>>

\* the variables of downloadFiles
downloadVars == <<tasks, downloadFilesPromise>>

\* the variables of the template service
templateVars == <<defaultConf>>

\* the state before any operation, the override file drawn from files
InitOf(files) ==
  /\ rev \in {1, 2}
  /\ pc = "ready"
  /\ editConfContent \in files
  /\ cfgFileContent = <<>>
  /\ executer = <<>>
  /\ version = 0
  /\ isLegacy = TRUE
  /\ entries = <<>>
  /\ overrideSettings = <<>>
  /\ baseSettings = <<>>
  /\ settings = <<>>
  /\ autoexec = <<>>
  /\ header = <<>>
  /\ templateSegs = <<>>
  /\ values = <<>>
  /\ executerName = Null
  /\ mapperFile = Null
  /\ config = <<>>
  /\ thrown = Null
  /\ resText = <<>>
  /\ resolution = DefaultResolution
  /\ win9xSettings = Win9xDefaults
  /\ w98krConfig = EmptyW98krConfig
  /\ heap = InitialHeap
  /\ tasks = <<>>
  /\ downloadFilesPromise = "none"
  /\ defaultConf = <<>>
  /\ attempt = 0
  /\ lastError = Null
  /\ retryPc = "idle"
  /\ retryThrown = Null
  /\ fetches = 0
  /\ errors = <<>>
  /\ sleeps = <<>>
  /\ listing = <<>>
  /\ present = {}
  /\ toUnlink = <<>>
  /\ extractPc = "idle"
  /\ run7zOutcome = "none"
  /\ extractError = "none"
  /\ parsedLines = <<>>
  /\ stack = <<>>
  /\ menuPc = "idle"
  /\ menuEndIdx = 0

Init == InitOf(EditConfFiles)

\* the initial states of the parser family and of the display family
InitParse == InitOf(ParseFiles)

InitDisplay == InitOf(DisplayFiles)

\* convertEditConfToSettings(parseEditConf(content), isLegacy) called with
\* either schema version
CallConvertEditConfToSettings ==
  /\ pc = "ready"
  /\ \E legacy \in BOOLEAN :
       /\ isLegacy' = legacy
       /\ entries' = parseEditConf(editConfContent)
       /\ overrideSettings' = convertEditConfToSettings(entries', legacy, rev)
  /\ settings' = overrideSettings'
  /\ pc' = "convertEditConfToSettings"
  /\ UNCHANGED <<heap, rev, editConfContent, cfgFileContent, executer, version,
                 baseSettings, autoexec, header, templateSegs, values,
                 executerName, mapperFile, config, thrown,
                 resText, resolution, win9xSettings, w98krConfig>>
  /\ UNCHANGED ioVars

\* the override settings of a file, resolved under the file's own version
resolveFile(content, r) ==
  convertEditConfToSettings(parseEditConf(content),
                            isLegacyVersion(parseEditConfVersion(content)), r)

\* mergeSettings(base, override) called on a sample base and the override
\* settings of the file
CallMergeSettings ==
  /\ pc = "ready"
  /\ baseSettings' \in SampleBases
  /\ version' = parseEditConfVersion(editConfContent)
  /\ isLegacy' = isLegacyVersion(version')
  /\ entries' = parseEditConf(editConfContent)
  /\ overrideSettings' = convertEditConfToSettings(entries', isLegacy', rev)
  /\ settings' = mergeSettings(baseSettings', overrideSettings')
  /\ heap' = mergeSettingsOn([heap EXCEPT !["base"] = baseSettings',
                                             !["override"] = overrideSettings'],
                             "base", "override").heap
  /\ pc' = "mergeSettings"
  /\ UNCHANGED <<rev, editConfContent, cfgFileContent, executer, autoexec,
                 header, templateSegs, values, executerName, mapperFile, config, thrown,
                 resText, resolution, win9xSettings, w98krConfig>>
  /\ UNCHANGED ioVars

\* generateDosboxConf(settings, autoexec, header) called on a settings map,
\* a sample script and an optional header
CallGenerateDosboxConf ==
  /\ pc = "ready"
  /\ baseSettings' \in {<<>>, BaseWithPseudo}
  /\ autoexec' \in SampleScripts
  /\ header' \in {<<>>, DosHeader}
  /\ version' = parseEditConfVersion(editConfContent)
  /\ isLegacy' = isLegacyVersion(version')
  /\ entries' = parseEditConf(editConfContent)
  /\ overrideSettings' = convertEditConfToSettings(entries', isLegacy', rev)
  /\ settings' = mergeSettings(baseSettings', overrideSettings')
  /\ config' = generateDosboxConf(settings', autoexec', header', rev)
  /\ heap' = mergeSettingsOn([heap EXCEPT !["base"] = baseSettings',
                                             !["override"] = overrideSettings'],
                             "base", "override").heap
  /\ pc' = "generateDosboxConf"
  /\ UNCHANGED <<rev, editConfContent, cfgFileContent, executer, templateSegs,
                 values, executerName, mapperFile, thrown,
                 resText, resolution, win9xSettings, w98krConfig>>
  /\ UNCHANGED ioVars

\* applyValuesToTemplate(template, values) called on a sample template and
\* the value map of the file
CallApplyValuesToTemplate ==
  /\ pc = "ready"
  /\ templateSegs' \in SampleTemplates
  /\ values' = parseEditConfFormat(editConfContent)
  /\ config' = applyValuesToTemplate(unparse(templateSegs'), values')
  /\ heap' = applyValuesToTemplateOn([heap EXCEPT !["values"] = values'],
                                     unparse(templateSegs'), "values").heap
  /\ pc' = "applyValuesToTemplate"
  /\ UNCHANGED <<rev, editConfContent, cfgFileContent, executer, version,
                 isLegacy, entries, overrideSettings, baseSettings, settings,
                 autoexec, header, executerName, mapperFile, thrown,
                 resText, resolution, win9xSettings, w98krConfig>>
  /\ UNCHANGED ioVars

\* generateDosboxConfigWithOptions(gameDir, option, editConfContent): the
\* DOS path
GenerateDosboxConfigWithOptions ==
  /\ pc = "ready"
  /\ \E hasDosUtil \in BOOLEAN, hasGus \in BOOLEAN, hasCd \in BOOLEAN :
       autoexec' = dosAutoexec(hasDosUtil, hasGus, hasCd)
  /\ baseSettings' = getDefaultDosboxSettings
  /\ IF editConfContent # <<>>
     THEN /\ version' = parseEditConfVersion(editConfContent)
          /\ isLegacy' = isLegacyVersion(version')
          /\ entries' = parseEditConf(editConfContent)
          /\ overrideSettings' = convertEditConfToSettings(entries', isLegacy', rev)
          /\ settings' = mergeSettings(baseSettings', overrideSettings')
          /\ heap' = mergeSettingsOn([heap EXCEPT !["base"] = baseSettings',
                                                     !["override"] = overrideSettings'],
                                     "base", "override").heap
     ELSE /\ settings' = baseSettings'
          /\ heap' = heap
          /\ UNCHANGED <<version, isLegacy, entries, overrideSettings>>
  /\ header' = DosHeader
  /\ config' = generateDosboxConf(settings', autoexec', header', rev)
  /\ pc' = "generateDosboxConfigWithOptions"
  /\ UNCHANGED <<rev, editConfContent, cfgFileContent, executer, templateSegs,
                 values, executerName, mapperFile, thrown,
                 resText, resolution, win9xSettings, w98krConfig>>
  /\ UNCHANGED ioVars

\* generateW98krConfig(gameDir, option, w98krInfo, editConfContent) of the
\* revision that calls getWin9xSettingsWithPreset: the Win9x path
GenerateW98krConfig ==
  /\ pc = "ready"
  /\ rev = 2
  /\ cfgFileContent' \in SamplePresets
  /\ autoexec' = w98Autoexec
  /\ LET presetResult == getWin9xSettingsWithPreset(cfgFileContent', editConfContent)
     IN  /\ settings' = presetResult.settings
         /\ executerName' = presetResult.executerName
         /\ mapperFile' = presetResult.mapperFile
  /\ baseSettings' = getDefaultWin9xSettings
  /\ header' = W98Header
  /\ config' = generateDosboxConf(settings', autoexec', header', rev)
  /\ pc' = "generateW98krConfig"
  /\ UNCHANGED <<heap, rev, editConfContent, executer, version, isLegacy, entries,
                 overrideSettings, templateSegs, values, thrown,
                 resText, resolution, win9xSettings, w98krConfig>>
  /\ UNCHANGED ioVars

\* generateDosboxXConfig(executerName, cfgFileContent, editConfContent): the
\* template path
GenerateDosboxXConfig ==
  /\ pc = "ready"
  /\ executer' \in SampleExecuters
  /\ cfgFileContent' \in SamplePresets
  /\ templateSegs' = TEMPLATES[getTemplateForExecuter(executer')]
  /\ values' = templateValues(cfgFileContent', editConfContent)
  /\ LET result == generateDosboxXConfig(executer', cfgFileContent', editConfContent)
     IN  config' = result.value /\ thrown' = result.thrown
  /\ heap' = IF thrown' = Null
             THEN applyValuesToTemplateOn([heap EXCEPT !["values"] = values'],
                                          unparse(templateSegs'), "values").heap
             ELSE heap
  /\ pc' = "generateDosboxXConfig"
  /\ UNCHANGED <<rev, editConfContent, version, isLegacy, entries,
                 overrideSettings, baseSettings, settings, autoexec, header,
                 executerName, mapperFile,
                 resText, resolution, win9xSettings, w98krConfig>>
  /\ UNCHANGED ioVars

\* parse9xResolution(value) called on a sample string
CallParse9xResolution ==
  /\ pc = "ready"
  /\ resText' \in SampleResolutions
  /\ resolution' = parse9xResolution(resText')
  /\ pc' = "parse9xResolution"
  /\ UNCHANGED <<heap, rev, editConfContent, cfgFileContent, executer, version,
                 isLegacy, entries, overrideSettings, baseSettings, settings,
                 autoexec, header, templateSegs, values, executerName,
                 mapperFile, config, thrown, win9xSettings, w98krConfig>>
  /\ UNCHANGED ioVars

\* extractWin9xSettings(parseEditConf(content), isLegacy) called with either
\* schema version
CallExtractWin9xSettings ==
  /\ pc = "ready"
  /\ \E legacy \in BOOLEAN :
       /\ isLegacy' = legacy
       /\ entries' = parseEditConf(editConfContent)
       /\ win9xSettings' = extractWin9xSettings(entries', legacy)
  /\ heap' = extractWin9xSettingsOn([heap EXCEPT !["entries"] = entries'],
                                    "entries", isLegacy').heap
  /\ pc' = "extractWin9xSettings"
  /\ UNCHANGED <<rev, editConfContent, cfgFileContent, executer, version,
                 overrideSettings, baseSettings, settings, autoexec, header,
                 templateSegs, values, executerName, mapperFile, config,
                 thrown, resText, resolution, w98krConfig>>
  /\ UNCHANGED ioVars

\* parseEditConf(content) of config-parser.ts
ParseEditConfDisplay ==
  /\ pc = "ready"
  /\ LET parsed == parseEditConfDisplay(editConfContent)
     IN  /\ version' = parsed.version
         /\ isLegacy' = parsed.isLegacy
         /\ entries' = parsed.entries
         /\ win9xSettings' = parsed.win9xSettings
         /\ executerName' = parsed.executerName
  /\ heap' = extractWin9xSettingsOn([heap EXCEPT !["entries"] = entries'],
                                    "entries", isLegacy').heap
  /\ pc' = "parseEditConf"
  /\ UNCHANGED <<rev, editConfContent, cfgFileContent, executer,
                 overrideSettings, baseSettings, settings, autoexec, header,
                 templateSegs, values, mapperFile, config, thrown, resText,
                 resolution, w98krConfig>>
  /\ UNCHANGED ioVars

\* getWin9xDisplaySettingsFromEditConf(cfgFileContent, editConfContent)
CallGetWin9xDisplaySettingsFromEditConf ==
  /\ pc = "ready"
  /\ cfgFileContent' \in SamplePresets
  /\ values' = templateValues(cfgFileContent', editConfContent)
  /\ win9xSettings' =
       getWin9xDisplaySettingsFromEditConf(cfgFileContent', editConfContent)
  /\ pc' = "getWin9xDisplaySettingsFromEditConf"
  /\ UNCHANGED <<heap, rev, editConfContent, executer, version, isLegacy, entries,
                 overrideSettings, baseSettings, settings, autoexec, header,
                 templateSegs, executerName, mapperFile, config, thrown,
                 resText, resolution, w98krConfig>>
  /\ UNCHANGED ioVars

\* parseW98krConf(content)
CallParseW98krConf ==
  /\ pc = "ready"
  /\ w98krConfig' = parseW98krConf(editConfContent)
  /\ pc' = "parseW98krConf"
  /\ UNCHANGED <<heap, rev, editConfContent, cfgFileContent, executer, version,
                 isLegacy, entries, overrideSettings, baseSettings, settings,
                 autoexec, header, templateSegs, values, executerName,
                 mapperFile, config, thrown, resText, resolution,
                 win9xSettings>>
  /\ UNCHANGED ioVars

Next ==
  \/ CallConvertEditConfToSettings
  \/ CallMergeSettings
  \/ CallGenerateDosboxConf
  \/ CallApplyValuesToTemplate
  \/ GenerateDosboxConfigWithOptions
  \/ GenerateW98krConfig
  \/ GenerateDosboxXConfig
  \/ CallParse9xResolution
  \/ CallExtractWin9xSettings
  \/ ParseEditConfDisplay
  \/ CallGetWin9xDisplaySettingsFromEditConf
  \/ CallParseW98krConf

Spec == Init /\ [][Next]_vars

\* the same operations on the files of the parser family
SpecParse == InitParse /\ [][Next]_vars

\* the same operations on the files of the display family
SpecDisplay == InitDisplay /\ [][Next]_vars


\* ------------------------------------------------------------------------
\* Observations on settings maps
\* ------------------------------------------------------------------------

\* the section names of a settings map
sectionNames(s) == {s[i].name : i \in 1..Len(s)}

\* the (section, key) pairs a settings map holds
pairsOf(s) ==
  UNION {{<<s[i].name, s[i].items[j].key>> : j \in 1..Len(s[i].items)} : i \in 1..Len(s)}

\* the value a settings map holds for a pair it has
valueOf(s, p) == getKey(getSection(s, p[1]), p[2])

\* the (section, key, value) triples a settings map holds
triplesOf(s) == {<<p[1], p[2], valueOf(s, p)>> : p \in pairsOf(s)}

\* the elements of a sequence
Range(q) == {q[i] : i \in 1..Len(q)}

\* the operations after which entries, isLegacy and overrideSettings hold an
\* entry list, the schema version and the map resolved from them
Resolved ==
  pc \in {"convertEditConfToSettings", "mergeSettings", "generateDosboxConf",
          "generateDosboxConfigWithOptions"}

\* the operations after which baseSettings, overrideSettings and settings
\* hold the arguments and the result of mergeSettings
Merged ==
  \/ pc \in {"mergeSettings", "generateDosboxConf"}
  \/ pc = "generateDosboxConfigWithOptions" /\ editConfContent # <<>>

\* the operations after which settings, autoexec, header and config hold the
\* arguments and the result of generateDosboxConf
Assembled ==
  pc \in {"generateDosboxConf", "generateDosboxConfigWithOptions", "generateW98krConfig"}

\* the operations after which templateSegs, values and config hold the
\* arguments and the result of applyValuesToTemplate
Rendered == pc \in {"applyValuesToTemplate", "generateDosboxXConfig"}

\* the schema tables as the source files write them, by schema version and
\* revision
IndexTable(legacy, r) ==
  IF legacy THEN (IF r = 1 THEN SECTION_INDEX_LEGACY ELSE SECTION_INDEX_LEGACY_2)
  ELSE (IF r = 1 THEN SECTION_INDEX ELSE SECTION_NAMES)

ItemsTable(legacy, r) ==
  IF legacy THEN (IF r = 1 THEN SECTION_ITEMS_LEGACY ELSE SECTION_ITEMS_LEGACY_2)
  ELSE (IF r = 1 THEN SECTION_ITEMS ELSE OPTION_DAT_SECTION_ITEMS)

\* the address of entry e is in the table of the schema version
InTable(e, legacy, r) ==
  /\ e.section \in DOMAIN IndexTable(legacy, r)
  /\ e.section \in DOMAIN ItemsTable(legacy, r)
  /\ e.item \in DOMAIN ItemsTable(legacy, r)[e.section]

\* the (sectionName, keyName) the table gives the address of entry e
TablePair(e, legacy, r) ==
  <<IndexTable(legacy, r)[e.section], ItemsTable(legacy, r)[e.section][e.item]>>

Entry(s, i, v) == [section |-> s, item |-> i, value |-> v]

V256 == <<"2", "5", "6">>

DosboxMemsize256 == {<<"dosbox", "memsize", V256>>}


\* ------------------------------------------------------------------------
\* C1
\* ------------------------------------------------------------------------

E_7_3_256 == Entry(7, 3, V256)

E_3_3_256 == Entry(3, 3, V256)

\* C1, as the claim states it: resolving the single entry 7|3|256 under the
\* legacy schema yields exactly {dosbox: {memsize: "256"}}.
C1_Original ==
  (pc = "convertEditConfToSettings" /\ isLegacy /\ entries = <<E_7_3_256>>)
    => triplesOf(overrideSettings) = DosboxMemsize256

\* C1, amended: resolving the single entry 7|3|256 under the legacy schema
\* yields the empty settings map, the legacy tables having no section 7;
\* {dosbox: {memsize: "256"}} is what 7|3|256 yields under the current
\* schema and what 3|3|256 yields under the legacy schema.
C1_Amended ==
  pc = "convertEditConfToSettings" =>
    /\ (isLegacy /\ entries = <<E_7_3_256>>) => overrideSettings = <<>>
    /\ (~isLegacy /\ entries = <<E_7_3_256>>) =>
         /\ triplesOf(overrideSettings) = DosboxMemsize256
         /\ sectionNames(overrideSettings) = {"dosbox"}
    /\ (isLegacy /\ entries = <<E_3_3_256>>) =>
         /\ triplesOf(overrideSettings) = DosboxMemsize256
         /\ sectionNames(overrideSettings) = {"dosbox"}

\* 7|3|256 has been resolved under the legacy schema
C1_Witness ==
  /\ pc = "convertEditConfToSettings"
  /\ isLegacy
  /\ entries = <<E_7_3_256>>
  /\ overrideSettings = <<>>

\* ------------------------------------------------------------------------
\* C2
\* ------------------------------------------------------------------------

\* C2: the resolver consults only the table of the schema version it is
\* given: the (section, key) pairs of the resolved map are exactly the pairs
\* that table gives the addresses of the entries.  So 3|3 resolves to
\* section dosbox under the legacy schema only, 6|0 to cpu.core under the
\* legacy schema and to dos.xms under the current one, and 8|0 to cpu.core
\* under the current schema only.
C2_SelectedTableOnly ==
  Resolved =>
    /\ pairsOf(overrideSettings) =
         {TablePair(e, isLegacy, rev) :
            e \in {x \in Range(entries) : InTable(x, isLegacy, rev)}}
    /\ \A v \in {<<"2", "5", "6">>, <<"auto">>} :
         /\ entries = <<Entry(3, 3, v)>> =>
              IF isLegacy
              THEN triplesOf(overrideSettings) = {<<"dosbox", "memsize", v>>}
              ELSE overrideSettings = <<>>
         /\ entries = <<Entry(6, 0, v)>> =>
              IF isLegacy
              THEN triplesOf(overrideSettings) = {<<"cpu", "core", v>>}
              ELSE triplesOf(overrideSettings) = {<<"dos", "xms", v>>}
         /\ entries = <<Entry(8, 0, v)>> =>
              IF isLegacy
              THEN overrideSettings = <<>>
              ELSE triplesOf(overrideSettings) = {<<"cpu", "core", v>>}

\* 6|0 has been resolved under the legacy schema, to cpu.core
C2_Witness ==
  /\ pc = "convertEditConfToSettings"
  /\ isLegacy
  /\ entries = <<Entry(6, 0, <<"auto">>)>>
  /\ triplesOf(overrideSettings) = {<<"cpu", "core", <<"auto">>>>}

\* ------------------------------------------------------------------------
\* C3
\* ------------------------------------------------------------------------

\* C3: an override file is resolved under the legacy schema exactly when
\* the number read from its ver. marker, dots removed, is below 220000:
\* ver.21.12.31 is 211231 and legacy, ver.22.00.00 is 220000 and current.
C3_LegacyBelowThreshold ==
  Merged =>
    /\ isLegacy <=> version < 220000
    /\ overrideSettings = convertEditConfToSettings(entries, version < 220000, rev)
    /\ startsWith(editConfContent, VerLegacy) => (version = 211231 /\ isLegacy)
    /\ startsWith(editConfContent, VerCurrent) => (version = 220000 /\ ~isLegacy)

\* a file marked ver.22.00.00 has been resolved, under the current schema
C3_Witness ==
  /\ pc = "mergeSettings"
  /\ startsWith(editConfContent, VerCurrent)
  /\ version = 220000
  /\ ~isLegacy
  /\ entries # <<>>

\* ------------------------------------------------------------------------
\* C4
\* ------------------------------------------------------------------------

\* C4: an entry whose address is not in the table of the schema version
\* adds nothing to the resolved map and the other entries resolve as
\* without it: every section of the map has a key, every key comes with its
\* value from an entry whose address is in the table, and the map is the one
\* the entries in the table resolve to by themselves.
C4_UnknownAddressIgnored ==
  Resolved =>
    LET known(e) == InTable(e, isLegacy, rev)
    IN  /\ \A i \in 1..Len(overrideSettings) : overrideSettings[i].items # <<>>
        /\ \A t \in triplesOf(overrideSettings) :
             \E e \in Range(entries) :
               /\ known(e)
               /\ TablePair(e, isLegacy, rev) = <<t[1], t[2]>>
               /\ e.value = t[3]
        /\ overrideSettings =
             convertEditConfToSettings(SelectSeq(entries, known), isLegacy, rev)
        /\ (\A e \in Range(entries) : ~known(e)) => overrideSettings = <<>>

\* an entry with an unknown item of a known section (6|99) and an entry with
\* a known address have been resolved together
C4_Witness ==
  /\ pc = "convertEditConfToSettings"
  /\ ~isLegacy
  /\ Len(entries) = 2
  /\ entries[1] = Entry(6, 99, <<"x">>)
  /\ entries[2] = Entry(7, 3, V256)
  /\ triplesOf(overrideSettings) = DosboxMemsize256

\* ------------------------------------------------------------------------
\* C5
\* ------------------------------------------------------------------------

\* C5: in merge(base, override) every key of the override has the
\* override's value, every key of the base that the override lacks has the
\* base's value, and there is no other key or section; merging
\* {dosbox: {memsize: "256"}, cpu: {core: "auto"}} into
\* {dosbox: {memsize: "16"}} gives {dosbox: {memsize: "256"}, cpu: {core: "auto"}}.
C5_MergePointwise ==
  Merged =>
    /\ \A p \in pairsOf(overrideSettings) :
         p \in pairsOf(settings) /\ valueOf(settings, p) = valueOf(overrideSettings, p)
    /\ \A p \in pairsOf(baseSettings) \ pairsOf(overrideSettings) :
         p \in pairsOf(settings) /\ valueOf(settings, p) = valueOf(baseSettings, p)
    /\ pairsOf(settings) = pairsOf(baseSettings) \cup pairsOf(overrideSettings)
    /\ sectionNames(settings) =
         sectionNames(baseSettings) \cup sectionNames(overrideSettings)
    /\ (/\ baseSettings = BaseMemsize16
        /\ triplesOf(overrideSettings) =
             {<<"dosbox", "memsize", V256>>, <<"cpu", "core", <<"auto">>>>})
         => triplesOf(settings) =
              {<<"dosbox", "memsize", V256>>, <<"cpu", "core", <<"auto">>>>}

\* {dosbox: {memsize: "256"}, cpu: {core: "auto"}} has been merged into
\* {dosbox: {memsize: "16"}}
C5_Witness ==
  /\ pc = "mergeSettings"
  /\ baseSettings = BaseMemsize16
  /\ triplesOf(overrideSettings) =
       {<<"dosbox", "memsize", V256>>, <<"cpu", "core", <<"auto">>>>}
  /\ triplesOf(settings) =
       {<<"dosbox", "memsize", V256>>, <<"cpu", "core", <<"auto">>>>}


\* ------------------------------------------------------------------------
\* C6
\* ------------------------------------------------------------------------

\* the value of pair p under the precedence default < preset < override
layered(p, default, preset, override) ==
  IF p \in pairsOf(override) THEN valueOf(override, p)
  ELSE IF p \in pairsOf(preset) THEN valueOf(preset, p)
  ELSE valueOf(default, p)

\* the settings map holds, for every pair of the three layers, the value of
\* the highest layer that has the pair
isLayered(s, default, preset, override) ==
  \A p \in pairsOf(default) \cup pairsOf(preset) \cup pairsOf(override) :
    p \in pairsOf(s) /\ valueOf(s, p) = layered(p, default, preset, override)

\* the settings a file resolves to, no settings for no file
layerOf(content, r) == IF content # <<>> THEN resolveFile(content, r) ELSE <<>>

\* the placeholder values of a file, none for no file
valuesOf(content) == IF content # <<>> THEN parseEditConfFormat(content) ELSE <<>>

\* the text of token t under the precedence default < preset < override
layeredText(t, preset, override) ==
  IF hasKey(override, t) THEN getKey(override, t)
  ELSE IF hasKey(preset, t) THEN getKey(preset, t)
  ELSE IF hasKey(WIN9X_DEFAULTS, t) THEN getKey(WIN9X_DEFAULTS, t)
  ELSE <<>>

RECURSIVE layeredRender(_, _, _)
layeredRender(segs, preset, override) ==
  IF segs = <<>> THEN <<>>
  ELSE (IF Head(segs).kind = "tok"
        THEN layeredText(Head(segs).text, preset, override)
        ELSE Head(segs).text)
       \o layeredRender(Tail(segs), preset, override)

\* C6, on the DOS path: the generated settings hold the override's value
\* for a key the override has, else the compiled-in default.
C6_DosPath ==
  pc = "generateDosboxConfigWithOptions" =>
    isLayered(settings, getDefaultDosboxSettings, <<>>, layerOf(editConfContent, rev))

\* C6, on the template path: every placeholder is rendered with the
\* override file's value, else the preset's, else the default table's.
C6_TemplatePath ==
  pc = "generateDosboxXConfig" =>
    config = layeredRender(templateSegs, valuesOf(cfgFileContent),
                           valuesOf(editConfContent))

\* C6, on the Win9x path: the generated settings hold the override's value
\* for a key the override has, else the preset's, else the default.
C6_Win9xPath ==
  pc = "generateW98krConfig" =>
    isLayered(settings, getDefaultWin9xSettings, layerOf(cfgFileContent, rev),
              layerOf(editConfContent, rev))

\* C6: on every path that generates a configuration (DOS, Win9x, template)
\* the final value of a key is the override's if the override has the key,
\* else the preset's if the preset has it, else the default.
C6_Precedence == C6_DosPath /\ C6_TemplatePath /\ C6_Win9xPath

\* ------------------------------------------------------------------------
\* C7
\* ------------------------------------------------------------------------

\* the text the claim gives token t under value map vals
tokenText(t, vals) ==
  IF hasKey(vals, t) THEN getKey(vals, t)
  ELSE IF hasKey(WIN9X_DEFAULTS, t) /\ getKey(WIN9X_DEFAULTS, t) # <<>>
       THEN getKey(WIN9X_DEFAULTS, t)
  ELSE <<>>

RECURSIVE renderSegs(_, _)
renderSegs(segs, vals) ==
  IF segs = <<>> THEN <<>>
  ELSE (IF Head(segs).kind = "tok" THEN tokenText(Head(segs).text, vals)
        ELSE Head(segs).text)
       \o renderSegs(Tail(segs), vals)

PseudoSections == {"default", "win9x", "pcem", "separator"}

headerLine(section) == <<"[", section, "]">>

\* C8, as the claim states it: the assembled text has no header line for
\* default, win9x, pcem and separator, and a header line for every other
\* section of the settings.
C8_Original ==
  Assembled =>
    /\ \A s \in PseudoSections : ~includes(config, headerLine(s))
    /\ \A s \in sectionNames(settings) \ PseudoSections :
         includes(config, headerLine(s))

\* C8, amended: the assembled text has no header line for default, win9x,
\* pcem and separator; every section of the settings other than these four
\* and glide has a header line; glide has one in revision 1 of
\* settingsToConfString and none in revision 2.
C8_Amended ==
  Assembled =>
    /\ \A s \in PseudoSections : ~includes(config, headerLine(s))
    /\ \A s \in sectionNames(settings) \ (PseudoSections \cup {"glide"}) :
         includes(config, headerLine(s))
    /\ "glide" \in sectionNames(settings) =>
         (includes(config, headerLine("glide")) <=> rev = 1)

\* settings with the sections default, win9x, separator and dosbox have been
\* assembled
C8_Witness ==
  /\ pc = "generateDosboxConf"
  /\ {"default", "win9x", "separator", "dosbox"} \subseteq sectionNames(settings)
  /\ includes(config, headerLine("dosbox"))
  /\ ~includes(config, headerLine("win9x"))

\* ------------------------------------------------------------------------
\* C9
\* ------------------------------------------------------------------------

\* C9, as the claim states it: the assembled text ends with the line
\* [autoexec] followed by the script as given, trailing newline included.
C9_Original ==
  Assembled => endsWith(config, AutoexecHeader \o <<"\n">> \o autoexec)

\* C9, amended: the assembled text ends with the line [autoexec] followed
\* by the script without its trailing white space, the document being
\* trimmed: for the script exit\n it ends with [autoexec]\nexit, and for an
\* empty or blank script with [autoexec].
C9_Amended ==
  Assembled =>
    /\ endsWith(config, trimEnd(AutoexecHeader \o <<"\n">> \o autoexec))
    /\ config[Len(config)] \notin Whitespace
    /\ autoexec = ScriptExit =>
         endsWith(config, <<"[", "autoexec", "]", "\n", "exit">>)
    /\ trim(autoexec) = <<>> => endsWith(config, AutoexecHeader)

\* settings have been assembled with the script exit\n
C9_Witness ==
  /\ pc = "generateDosboxConf"
  /\ autoexec = ScriptExit
  /\ settings # <<>>
  /\ endsWith(config, <<"[", "autoexec", "]", "\n", "exit">>)

\* ------------------------------------------------------------------------
\* C10
\* ------------------------------------------------------------------------

is_21_1(e) == e.section = 21 /\ e.item = 1

not_21_1(e) == ~is_21_1(e)

\* C10: under the legacy schema an entry 21|1|... adds no key: the resolved
\* map has no section voodoo, it is the map the other entries resolve to,
\* and the text of the DOS path has no [voodoo] line.
C10_LegacyVoodooUnmapped ==
  (Resolved /\ isLegacy /\ \E e \in Range(entries) : is_21_1(e)) =>
    /\ ~hasSection(overrideSettings, "voodoo")
    /\ overrideSettings =
         convertEditConfToSettings(SelectSeq(entries, not_21_1), TRUE, rev)
    /\ pc = "generateDosboxConfigWithOptions" =>
         ~includes(config, headerLine("voodoo"))


\* ------------------------------------------------------------------------
\* C11
\* ------------------------------------------------------------------------

\* the override file carries a version below 220000, or none
fileIsLegacy == parseEditConfVersion(editConfContent) < 220000

\* the placeholder keys the table of the schema version gives the entries
keysOfTable(es, legacy, r) ==
  {<<TablePair(e, legacy, r)[1], "_", TablePair(e, legacy, r)[2]>> :
     e \in {x \in Range(es) : InTable(x, legacy, r)}}

\* C11, in the settings-map resolver: the keys of a legacy file come from
\* the legacy table.
C11_Resolver ==
  (Merged /\ fileIsLegacy) =>
    pairsOf(overrideSettings) =
      {TablePair(e, TRUE, rev) : e \in {x \in Range(entries) : InTable(x, TRUE, rev)}}

\* C11, in the template value map: every key flattened from a legacy file
\* is a key the legacy table gives one of the file's entries.
C11_ValueMap ==
  (Rendered /\ cfgFileContent = <<>> /\ fileIsLegacy) =>
    \A i \in 1..Len(values) :
      values[i].key \in keysOfTable(parseEditConf(editConfContent), TRUE, rev)

\* C11, in the direct probes of the Win9x path: a mapper file read from a
\* legacy file comes from an address the legacy table maps to sdl.mapperfile.
C11_Probes ==
  (pc = "generateW98krConfig" /\ cfgFileContent = <<>> /\ fileIsLegacy
   /\ mapperFile # Null) =>
    \E e \in Range(parseEditConf(editConfContent)) :
      /\ InTable(e, TRUE, rev)
      /\ TablePair(e, TRUE, rev) = <<"sdl", "mapperfile">>
      /\ e.value = mapperFile

\* C11: every path that turns the addresses of an override file into
\* setting keys uses the table of the file's own schema version: for a file
\* marked below 220000, or unmarked, no key comes from the current table.
C11_OwnSchemaTable == C11_Resolver /\ C11_ValueMap /\ C11_Probes


\* ------------------------------------------------------------------------
\* C12
\* ------------------------------------------------------------------------

\* the variant rules in the order the selection tries them: the tag an
\* upper-cased identifier must contain, next to -X, and the template type
VariantRules ==
  <<[tag |-> <<"W", "9", "8", "K", "R">>, type |-> "W98KR-x"],
    [tag |-> <<"W", "9", "5", "K", "R">>, type |-> "W95KR-x"],
    [tag |-> <<"W", "9", "8", "J", "P">>, type |-> "W98JP-x"],
    [tag |-> <<"W", "9", "5", "J", "P">>, type |-> "W95JP-x"],
    [tag |-> <<"W", "9", "8", "E", "N">>, type |-> "W98EN-x"],
    [tag |-> <<"W", "9", "5", "E", "N">>, type |-> "W95EN-x"]>>

\* the variant rules the identifier matches
matchingRules(e) ==
  {i \in 1..Len(VariantRules) :
     /\ includes(toUpperCase(e), VariantRules[i].tag)
     /\ includes(toUpperCase(e), <<"-", "X">>)}

\* the least element of a non-empty set of numbers
least(S) == CHOOSE i \in S : \A j \in S : i <= j

\* C12: template selection is total and deterministic: every identifier,
\* the empty one and those matching no or several variant rules included,
\* gets exactly one template, the one of the first rule it matches and the
\* generic DOSBox-x template when it matches none, and generation raises
\* no error.
C12_TemplateSelectionTotal ==
  pc = "generateDosboxXConfig" =>
    /\ thrown = Null
    /\ Cardinality({t \in DOMAIN TEMPLATES : TEMPLATES[t] = templateSegs}) = 1
    /\ matchingRules(executer) = {} => templateSegs = TEMPLATES["DOSBox-x"]
    /\ matchingRules(executer) # {} =>
         templateSegs = TEMPLATES[VariantRules[least(matchingRules(executer))].type]
    /\ executer \in {<<>>, ExecW98KR, ExecPCem, ExecDOSBoxx} =>
         templateSegs = TEMPLATES["DOSBox-x"]
    /\ executer = ExecLowerW95KRx => templateSegs = TEMPLATES["W95KR-x"]
    /\ executer = ExecTwoTags => templateSegs = TEMPLATES["W98KR-x"]
    /\ config = renderSegs(templateSegs, values)

\* a configuration has been generated for an identifier no rule matches
C12_Witness ==
  /\ pc = "generateDosboxXConfig"
  /\ executer = ExecPCem
  /\ matchingRules(executer) = {}
  /\ templateSegs = TEMPLATES["DOSBox-x"]
  /\ thrown = Null
  /\ config # <<>>


\* ------------------------------------------------------------------------
\* C13
\* ------------------------------------------------------------------------

\* the lines of a file, trimmed
trimmedLines(content) ==
  LET ls == split(content, "\n") IN [i \in 1..Len(ls) |-> trim(ls[i])]

isDataLine(l) == l # <<>> /\ ~startsWith(l, VerPrefix)

\* the data lines of a file: trimmed, not empty, not a version marker
dataLines(content) == SelectSeq(trimmedLines(content), isDataLine)

\* the text is a non-negative integer: decimal digits only, at least one
isNonNegativeInteger(t) ==
  LET u == trim(t) IN u # <<>> /\ \A i \in 1..Len(u) : u[i] \in Digits

\* the acceptance rule of the claim
acceptedByClaim(l) ==
  LET parts == split(l, "|")
  IN  /\ Len(parts) >= 3
      /\ isNonNegativeInteger(parts[1])
      /\ isNonNegativeInteger(parts[2])

\* C13: the entry parser makes an entry of a data line if and only if the
\* line splits on | into at least 3 parts and each of the first two parts
\* is a non-negative integer; -1|2|x and 3abc|1|x give no entry.
C13_AcceptsNonNegativeIntegersOnly ==
  Resolved =>
    /\ Len(entries) = Len(SelectSeq(dataLines(editConfContent), acceptedByClaim))
    /\ dataLines(editConfContent) = <<Line_neg>> => entries = <<>>
    /\ dataLines(editConfContent) = <<Line_3abc>> => entries = <<>>

\* ------------------------------------------------------------------------
\* C14
\* ------------------------------------------------------------------------

\* the index of the n-th | of l at or after index i, 0 when there is none
RECURSIVE nthPipe(_, _, _)
nthPipe(l, i, n) ==
  IF i > Len(l) THEN 0
  ELSE IF l[i] = "|" THEN (IF n = 1 THEN i ELSE nthPipe(l, i + 1, n - 1))
  ELSE nthPipe(l, i + 1, n)

\* everything after the second | of a line that has two
afterSecondPipe(l) == SubSeq(l, nthPipe(l, 1, 2) + 1, Len(l))

\* the line makes an entry: at least 3 parts, the first two read as numbers
makesEntry(l) ==
  LET parts == split(l, "|")
  IN  Len(parts) >= 3 /\ ~isNaN(parseInt(parts[1])) /\ ~isNaN(parseInt(parts[2]))

\* C14, in parseEditConf: the value of the k-th entry is everything after
\* the second | of the k-th line that makes an entry.
C14_EntryList ==
  Resolved =>
    LET ls == SelectSeq(dataLines(editConfContent), makesEntry)
    IN  /\ Len(entries) = Len(ls)
        /\ \A k \in 1..Len(entries) : entries[k].value = afterSecondPipe(ls[k])

\* C14, in parseEditConfFormat: every value of the map is everything after
\* the second | of a data line.
C14_ValueMap ==
  (Rendered /\ cfgFileContent = <<>>) =>
    \A i \in 1..Len(values) :
      \E l \in Range(dataLines(editConfContent)) :
        nthPipe(l, 1, 2) # 0 /\ values[i].value = afterSecondPipe(l)

\* C14, in parseW98krConf: a name read from a file whose only data line is
\* 0|0|... is everything after the second | of that line.
C14_W98krConf ==
  (pc = "parseW98krConf" /\ Len(dataLines(editConfContent)) = 1
   /\ w98krConfig.w98krName # Undefined) =>
    w98krConfig.w98krName = afterSecondPipe(dataLines(editConfContent)[1])

\* C14: in every parser of the override format the value of an accepted
\* data line is everything after the second |, embedded | included, never
\* the third field only.
C14_ValueKeepsDelimiters == C14_EntryList /\ C14_ValueMap /\ C14_W98krConf

\* ------------------------------------------------------------------------
\* C15
\* ------------------------------------------------------------------------

\* the operations after which version and isLegacy hold the version of the
\* override file and its classification
Versioned == Merged \/ pc = "parseEditConf"

\* the first line of a file
firstLine(content) == split(content, "\n")[1]

\* C15: a version marker that is not of the form ver.YY.MM.DD parses to
\* version 0 and the file is legacy; a file without a marker has version 0
\* and is legacy; no error is raised.
C15_MalformedVersionIsZero ==
  Versioned =>
    /\ thrown = Null
    /\ firstLine(editConfContent) \in MalformedVersionLines =>
         (version = 0 /\ isLegacy)
    /\ (\A l \in Range(trimmedLines(editConfContent)) : ~startsWith(l, VerPrefix)) =>
         (version = 0 /\ isLegacy)

\* ------------------------------------------------------------------------
\* C16: parse9xResolution is total.  For a string that contains
\* <digits>x<digits> it returns the width and the bits per pixel of the
\* leftmost such pattern, with the height of the table 640->480, 800->600,
\* 1024->768, 1152->864, 1280->960, 1600->1200 and 480 for any other width;
\* for a string without the pattern it returns 640x480x8; it does not throw.
\* ------------------------------------------------------------------------

\* a digit, an x and a digit stand at i, i + 1, i + 2
patternAt(s, i) ==
  i + 2 <= Len(s) /\ s[i] \in Digits /\ s[i + 1] = "x" /\ s[i + 2] \in Digits

hasPattern(s) == \E i \in 1..Len(s) : patternAt(s, i)

\* the position of the x of the leftmost pattern
firstX(s) ==
  1 + CHOOSE i \in 1..Len(s) :
        patternAt(s, i) /\ \A j \in 1..Len(s) : patternAt(s, j) => i <= j

\* the digits that end right before position x, and those that start after it
digitsBefore(s, x) ==
  LET from == CHOOSE a \in 1..(x - 1) :
                /\ \A k \in a..(x - 1) : s[k] \in Digits
                /\ a = 1 \/ s[a - 1] \notin Digits
  IN  SubSeq(s, from, x - 1)

digitsAfter(s, x) ==
  LET to == CHOOSE b \in (x + 1)..Len(s) :
              /\ \A k \in (x + 1)..b : s[k] \in Digits
              /\ b = Len(s) \/ s[b + 1] \notin Digits
  IN  SubSeq(s, x + 1, to)

\* the decimal value of a string of digits
RECURSIVE decimal(_)
decimal(ds) ==
  IF ds = <<>> THEN 0
  ELSE 10 * decimal(SubSeq(ds, 1, Len(ds) - 1))
       + (CHOOSE d \in 0..9 : ToString(d) = ds[Len(ds)])

tableHeight(w) ==
  CASE w = 640 -> 480 [] w = 800 -> 600 [] w = 1024 -> 768
    [] w = 1152 -> 864 [] w = 1280 -> 960 [] w = 1600 -> 1200
    [] OTHER -> 480

\* C16: parse9xResolution returns the width and bits per pixel of the
\* leftmost <digits>x<digits>, the height of the table or 480, and 640x480x8
\* for a string without the pattern; it never throws.
C16_Parse9xResolutionTotal ==
  pc = "parse9xResolution" =>
    /\ thrown = Null
    /\ IF hasPattern(resText)
       THEN LET x == firstX(resText)
                w == decimal(digitsBefore(resText, x))
            IN  resolution =
                  [width |-> w, height |-> tableHeight(w),
                   bitsPerPixel |-> decimal(digitsAfter(resText, x))]
       ELSE resolution = [width |-> 640, height |-> 480, bitsPerPixel |-> 8]
    /\ resText = <<"8", "0", "0", "x", "1", "6">> =>
         resolution = [width |-> 800, height |-> 600, bitsPerPixel |-> 16]
    /\ resText = <<"garbage">> =>
         resolution = [width |-> 640, height |-> 480, bitsPerPixel |-> 8]

\* a width of the table and a width outside it have been parsed
C16_Witness ==
  /\ pc = "parse9xResolution"
  /\ resText = <<"1", "2", "8", "0", "x", "3", "2">>
  /\ resolution = [width |-> 1280, height |-> 960, bitsPerPixel |-> 32]

\* ------------------------------------------------------------------------
\* C17: when the input has no entry in a win9x display slot (section 1,
\* items 1 to 9) and, under the legacy schema, no entry 21|1, the display
\* settings extracted from it, by the entry-list form and by the value-map
\* form alike, are exactly the defaults: 640x480 at 8 bpp, ddraw, d3d and
\* threeDfx true, midiDriver SBFM, volumes master = wave = midi = 255 and
\* cd = 128.
\* ------------------------------------------------------------------------

\* the entry stands in one of the nine display slots, or at the aliased
\* address of a legacy file
inDisplaySlot(e, legacy) ==
  \/ e.section = 1 /\ e.item \in 1..9
  \/ legacy /\ e.section = 21 /\ e.item = 1

noDisplayEntry(es, legacy) ==
  \A i \in 1..Len(es) : ~inDisplaySlot(es[i], legacy)

StatedDefaults ==
  [resolution |-> [width |-> 640, height |-> 480, bitsPerPixel |-> 8],
   ddraw |-> TRUE, d3d |-> TRUE, threeDfx |-> TRUE,
   midiDriver |-> "SBFM",
   volumes |-> [master |-> 255, wave |-> 255, midi |-> 255, cd |-> 128]]

C17_EntryList ==
  (pc \in {"extractWin9xSettings", "parseEditConf"}
   /\ noDisplayEntry(entries, isLegacy)) => win9xSettings = StatedDefaults

C17_ValueMap ==
  (pc = "getWin9xDisplaySettingsFromEditConf"
   /\ noDisplayEntry(parseEditConf(cfgFileContent), fileIsLegacy)
   /\ noDisplayEntry(parseEditConf(editConfContent), fileIsLegacy))
    => win9xSettings = StatedDefaults

\* C17: without an entry in a display slot both forms of the extraction
\* return exactly the defaults.
C17_DefaultsWithoutDisplayEntry == C17_EntryList /\ C17_ValueMap

\* a file with data lines, none of them in a display slot, has gone through
\* the entry-list form
C17_Witness ==
  /\ pc = "extractWin9xSettings"
  /\ entries # <<>>
  /\ noDisplayEntry(entries, isLegacy)
  /\ win9xSettings = StatedDefaults

\* the same through the value-map form
C17_WitnessValueMap ==
  /\ pc = "getWin9xDisplaySettingsFromEditConf"
  /\ values # <<>>
  /\ noDisplayEntry(parseEditConf(editConfContent), fileIsLegacy)
  /\ win9xSettings = StatedDefaults

\* ------------------------------------------------------------------------
\* C18: both forms of the display-settings extraction take the resolution of
\* a legacy file from the aliased address 21|1: under the legacy schema an
\* entry 21|1|v sets the resolution to parse9xResolution(v), under the
\* current schema the same entry leaves the resolution unchanged.
\* ------------------------------------------------------------------------

\* the entry sets the resolution under the schema version
setsResolution(e, legacy) ==
  \/ e.section = 1 /\ e.item = 1
  \/ legacy /\ e.section = 21 /\ e.item = 1

\* the resolution the entries give: that of the last entry that sets it
statedResolution(es, legacy) ==
  LET at == {i \in 1..Len(es) : setsResolution(es[i], legacy)}
  IN  IF at = {} THEN [width |-> 640, height |-> 480, bitsPerPixel |-> 8]
      ELSE LET last == CHOOSE i \in at : \A j \in at : j <= i
           IN  parse9xResolution(es[last].value)

C18_EntryList ==
  pc \in {"extractWin9xSettings", "parseEditConf"} =>
    win9xSettings.resolution = statedResolution(entries, isLegacy)

C18_ValueMap ==
  pc = "getWin9xDisplaySettingsFromEditConf" =>
    win9xSettings.resolution =
      statedResolution(parseEditConf(cfgFileContent)
                         \o parseEditConf(editConfContent), fileIsLegacy)

\* C18: in both forms an entry 21|1|v sets the resolution to
\* parse9xResolution(v) under the legacy schema and leaves it unchanged
\* under the current one.
C18_LegacyAliasInBothForms == C18_EntryList /\ C18_ValueMap

\* ------------------------------------------------------------------------
\* C19: there is no fatal-error path in the core.  As claimed: for every
\* override file, preset, executer name and autoexec script, the pipeline
\* parse, resolve, merge, assemble and the template render path end without
\* raising and return a document that contains an [autoexec] section.
\* ------------------------------------------------------------------------

\* the text has a line [autoexec]
hasAutoexecSection(text) ==
  \E i \in 1..(Len(text) - 2) :
    /\ SubSeq(text, i, i + 2) = <<"[", "autoexec", "]">>
    /\ i = 1 \/ text[i - 1] = "\n"
    /\ i + 2 = Len(text) \/ text[i + 3] = "\n"

C19_WitnessRender ==
  /\ pc = "generateDosboxXConfig"
  /\ hasAutoexecSection(unparse(templateSegs))
  /\ hasAutoexecSection(config)

\* ------------------------------------------------------------------------
\* C20: no core operation modifies its arguments or the static tables.
\* After every operation the default table has its initial contents, the
\* objects handed to the operation (base and override of merge, the entry
\* array of the display-settings extraction, the value map of render) have
\* the contents they were handed in with, and the result is the new object
\* of the call, a function of the arguments alone.
\* ------------------------------------------------------------------------

\* the operations that extract the display settings from an entry array
Extracted == pc \in {"extractWin9xSettings", "parseEditConf"}

C20_TablesUnchanged == heap["WIN9X_DEFAULTS"] = WIN9X_DEFAULTS

C20_ArgumentsUnchanged ==
  /\ Merged => heap["base"] = baseSettings /\ heap["override"] = overrideSettings
  /\ Extracted => heap["entries"] = entries
  /\ Rendered => heap["values"] = values

C20_ResultOfArguments ==
  /\ Merged => /\ heap["new"] = settings
               /\ settings = mergeSections(baseSettings, overrideSettings)
  /\ Extracted => /\ heap["new"] = win9xSettings
                  /\ win9xSettings = extractWin9xSettings(parseEditConf(editConfContent), isLegacy)
  /\ Rendered => config = renderSegs(templateSegs, values)

\* C20: after every operation the tables and the argument objects are
\* unchanged and the result is the call's own new object.
C20_NoSharedMutableState ==
  C20_TablesUnchanged /\ C20_ArgumentsUnchanged /\ C20_ResultOfArguments

\* merge has written keys that its base does not have
C20_Witness ==
  /\ pc = "mergeSettings"
  /\ baseSettings = BaseMemsize16
  /\ pairsOf(overrideSettings) \ pairsOf(baseSettings) # {}
  /\ heap["base"] = BaseMemsize16
  /\ heap["new"] = settings
  /\ settings # baseSettings

\* ------------------------------------------------------------------------
\* services/tistory.ts: downloadFiles
\* ------------------------------------------------------------------------

\* largest number of attachments handed to downloadFiles
MaxAttachments == 6

CONCURRENT_DOWNLOADS == 5

\* activeCount of the limiter: the tasks whose function has been started
\* and has not settled
activeCount(ts) == Cardinality({i \in 1..Len(ts) : ts[i] = "running"})

\* the queue of the limiter, in the order of attachments.map
queued(ts) == {i \in 1..Len(ts) : ts[i] = "queued"}

\* a limiter that starts a queued function whenever there is one
mayStart_unlimited(ts) == queued(ts) # {}

\* pLimit(CONCURRENT_DOWNLOADS): a queued function is started only while
\* fewer than the limit are active
mayStart(ts) == queued(ts) # {} /\ activeCount(ts) < CONCURRENT_DOWNLOADS

\* Promise.all(downloadTasks): rejected by the first task that fails,
\* resolved when every task is done
promiseAll(promise, ts) ==
  IF promise # "pending" THEN promise
  ELSE IF \E i \in 1..Len(ts) : ts[i] = "failed" THEN "rejected"
  ELSE IF \A i \in 1..Len(ts) : ts[i] = "done" THEN "resolved"
  ELSE "pending"

\* downloadFiles(attachments, destDir, ...): every attachment becomes a
\* task in the queue of the limiter
DownloadFiles ==
  /\ pc = "ready"
  /\ \E n \in 0..MaxAttachments : tasks' = [i \in 1..n |-> "queued"]
  /\ downloadFilesPromise' = promiseAll("pending", tasks')
  /\ pc' = "downloadFiles"
  /\ UNCHANGED coreVars
  /\ UNCHANGED templateVars
  /\ UNCHANGED retryVars
  /\ UNCHANGED extractVars
  /\ UNCHANGED menuVars

\* the limiter starts the function at the head of its queue
LimitStartsTask ==
  /\ pc = "downloadFiles"
  /\ mayStart(tasks)
  /\ LET i == CHOOSE k \in queued(tasks) : \A j \in queued(tasks) : k <= j
     IN  tasks' = [tasks EXCEPT ![i] = "running"]
  /\ UNCHANGED <<pc, downloadFilesPromise, coreVars>>
  /\ UNCHANGED templateVars
  /\ UNCHANGED retryVars
  /\ UNCHANGED extractVars
  /\ UNCHANGED menuVars

\* downloadFileWithRetry returns in a task: onFileComplete, the task is done
TaskCompletes ==
  /\ pc = "downloadFiles"
  /\ \E i \in 1..Len(tasks) :
       /\ tasks[i] = "running"
       /\ tasks' = [tasks EXCEPT ![i] = "done"]
  /\ downloadFilesPromise' = promiseAll(downloadFilesPromise, tasks')
  /\ UNCHANGED <<pc, coreVars>>
  /\ UNCHANGED templateVars
  /\ UNCHANGED retryVars
  /\ UNCHANGED extractVars
  /\ UNCHANGED menuVars

\* downloadFileWithRetry throws in a task: onFileError, the task rethrows
TaskFails ==
  /\ pc = "downloadFiles"
  /\ \E i \in 1..Len(tasks) :
       /\ tasks[i] = "running"
       /\ tasks' = [tasks EXCEPT ![i] = "failed"]
  /\ downloadFilesPromise' = promiseAll(downloadFilesPromise, tasks')
  /\ UNCHANGED <<pc, coreVars>>
  /\ UNCHANGED templateVars
  /\ UNCHANGED retryVars
  /\ UNCHANGED extractVars
  /\ UNCHANGED menuVars

\* ------------------------------------------------------------------------
\* C21: while downloadFiles runs, at no moment are more than 5 downloads in
\* progress, whatever the number of attachments and the order in which
\* downloads finish or fail.
\* ------------------------------------------------------------------------

\* C21: at most 5 download tasks are running at any moment.
C21_AtMostFiveDownloads ==
  Cardinality({i \in 1..Len(tasks) : tasks[i] = "running"}) <= 5

\* five downloads are in progress and a sixth waits in the queue
C21_Witness ==
  /\ pc = "downloadFiles"
  /\ Cardinality({i \in 1..Len(tasks) : tasks[i] = "running"}) = 5
  /\ \E i \in 1..Len(tasks) : tasks[i] = "queued"
  /\ downloadFilesPromise = "pending"

\* ------------------------------------------------------------------------
\* services/dosbox-template.ts
\* ------------------------------------------------------------------------

\* Default.conf line (1-indexed) where the SDL section starts
DEFAULT_CONF_SDL_START_LINE == 757

\* extractPlaceholders(template): the names of the matches of /@([^@]+)@/g,
\* in order, scanning from index i
RECURSIVE extractPlaceholders(_, _)
extractPlaceholders(s, i) ==
  IF i > Len(s) THEN <<>>
  ELSE IF s[i] = "@"
       THEN LET close == nextAt(s, i + 1)
            IN  IF close > i + 1
                THEN <<SubSeq(s, i + 1, close - 1)>> \o extractPlaceholders(s, close + 1)
                ELSE extractPlaceholders(s, i + 1)
       ELSE extractPlaceholders(s, i + 1)

\* placeholderToLineIndex(placeholderIndex), 0-indexed
placeholderToLineIndex(placeholderIndex) ==
  DEFAULT_CONF_SDL_START_LINE - 1 + placeholderIndex

\* defaultValues[lineIndex] ?? '', the array given by its lines from the SDL
\* start line on
lineAt(sdlLines, lineIndex) ==
  LET k == lineIndex - (DEFAULT_CONF_SDL_START_LINE - 1) + 1
  IN  IF k \in 1..Len(sdlLines) THEN sdlLines[k] ELSE <<>>

\* the replacement string of String.prototype.replace, expanded for a match
\* of a pattern without groups: $$, $&, $` and $' are special
RECURSIVE expandReplacement(_, _, _, _, _)
expandReplacement(v, i, matched, before, after) ==
  IF i > Len(v) THEN <<>>
  ELSE IF v[i] = "$" /\ i < Len(v) /\ v[i + 1] \in {"$", "&", "`", "'"}
       THEN (CASE v[i + 1] = "$" -> <<"$">>
               [] v[i + 1] = "&" -> matched
               [] v[i + 1] = "`" -> before
               [] v[i + 1] = "'" -> after)
            \o expandReplacement(v, i + 2, matched, before, after)
       ELSE <<v[i]>> \o expandReplacement(v, i + 1, matched, before, after)

\* result.replace(new RegExp(`@${escapeRegex(placeholder)}@`, 'g'), value),
\* scanning from index i: every occurrence of @placeholder@ in the text
RECURSIVE replaceAll(_, _, _, _)
replaceAll(s, i, placeholder, value) ==
  LET pat == <<"@">> \o placeholder \o <<"@">>
      n == Len(pat)
  IN  IF i > Len(s) THEN <<>>
      ELSE IF i + n - 1 <= Len(s) /\ SubSeq(s, i, i + n - 1) = pat
           THEN expandReplacement(value, 1, pat, SubSeq(s, 1, i - 1),
                                  SubSeq(s, i + n, Len(s)))
                \o replaceAll(s, i + n, placeholder, value)
           ELSE <<s[i]>> \o replaceAll(s, i + 1, placeholder, value)

\* for (let i = 0; i < placeholders.length; i++) { ... } of processTemplate
RECURSIVE processLoop(_, _, _, _)
processLoop(result, placeholders, i, sdlLines) ==
  IF i >= Len(placeholders) THEN result
  ELSE LET placeholder == placeholders[i + 1]
           value == lineAt(sdlLines, placeholderToLineIndex(i))
       IN  processLoop(replaceAll(result, 1, placeholder, trim(value)),
                       placeholders, i + 1, sdlLines)

\* processTemplate(), for the bundled template text and the bundled lines of
\* Default.conf
processTemplate(template, sdlLines) ==
  processLoop(template, extractPlaceholders(template, 1), 0, sdlLines)

\* template skeletons of the Options directory: two different tokens, and
\* one token alone
TemplateTwoTokens ==
  <<Lit(<<"core", "=">>), Tok(<<"cpu", "_", "core">>),
    Lit(<<"\n", "cycles", "=">>), Tok(<<"cpu", "_", "cycles">>), Lit(<<"\n">>)>>

TemplateOneToken == <<Lit(<<"core", "=">>), Tok(<<"cpu", "_", "core">>)>>

OptionTemplates == {TemplateTwoTokens, TemplateOneToken, TemplatePlain}

\* lines of Default.conf from the SDL start line on: plain values, a value
\* that holds the second token of the template, one that holds a token no
\* template has, and one with a dollar pattern
SdlLinesPlain == <<<<"auto">>, <<"max">>>>
SdlLinesNested == <<<<"@", "cpu", "_", "cycles", "@">>, <<"max">>>>
SdlLinesForeign == <<<<"@", "x", "@">>, <<"max">>>>
SdlLinesDollar == <<<<"$", "&">>, <<" ", "max", " ">>>>
SdlLinesShort == <<<<"auto">>>>

DefaultConfs ==
  {SdlLinesPlain, SdlLinesNested, SdlLinesForeign, SdlLinesDollar, SdlLinesShort}

\* processTemplate() run for a bundled template and a bundled Default.conf
ProcessTemplate ==
  /\ pc = "ready"
  /\ templateSegs' \in OptionTemplates
  /\ defaultConf' \in DefaultConfs
  /\ config' = processTemplate(unparse(templateSegs'), defaultConf')
  /\ pc' = "processTemplate"
  /\ UNCHANGED <<rev, editConfContent, cfgFileContent, executer, version,
                 isLegacy, entries, overrideSettings, baseSettings, settings,
                 autoexec, header, values, executerName, mapperFile, thrown,
                 resText, resolution, win9xSettings, w98krConfig, heap>>
  /\ UNCHANGED <<tasks, downloadFilesPromise>>
  /\ UNCHANGED retryVars
  /\ UNCHANGED extractVars
  /\ UNCHANGED menuVars

\* override files whose values hold token text
Line_7_3_token == <<"7", "|", "3", "|", "@", "cpu", "_", "core", "@">>
Line_7_3_foreign == <<"7", "|", "3", "|", "@", "x", "@">>

TokenFiles == {<<>>, Line_7_3_token, Line_7_3_foreign, Line_7_3_256}

\* ------------------------------------------------------------------------
\* C22: template rendering is a single pass: text inserted as the value of
\* one token is never itself scanned for tokens, so a substituted value that
\* contains @x@ appears verbatim in the output, in every template
\* substitution routine of the program.
\* ------------------------------------------------------------------------

\* the value processTemplate gives the k-th token of the template: the line
\* of the first token of the same name, trimmed
tokensOf(segs) == SelectSeq(segs, LAMBDA g : g.kind = "tok")

valueOfToken(segs, name, sdlLines) ==
  LET toks == tokensOf(segs)
      first == CHOOSE k \in 1..Len(toks) :
                 toks[k].text = name /\ \A j \in 1..(k - 1) : toks[j].text # name
  IN  trim(lineAt(sdlLines, DEFAULT_CONF_SDL_START_LINE - 1 + (first - 1)))

\* the template with every token replaced, in one pass, by its value as it is
RECURSIVE singlePass(_, _, _)
singlePass(segs, all, sdlLines) ==
  IF segs = <<>> THEN <<>>
  ELSE (IF Head(segs).kind = "tok"
        THEN valueOfToken(all, Head(segs).text, sdlLines)
        ELSE Head(segs).text)
       \o singlePass(Tail(segs), all, sdlLines)

\* C22, in applyValuesToTemplate: the output is the template with each token
\* replaced by its value as it is.
C22_ApplyValues ==
  pc = "applyValuesToTemplate" => config = renderSegs(templateSegs, values)

\* C22, in processTemplate: the output is the template with each token
\* replaced by its value as it is.
C22_ProcessTemplate ==
  pc = "processTemplate" => config = singlePass(templateSegs, templateSegs, defaultConf)

\* C22: in every substitution routine the inserted values appear verbatim
\* and are not scanned again.
C22_SinglePass == C22_ApplyValues /\ C22_ProcessTemplate

\* ------------------------------------------------------------------------
\* Override files around the win9x display slots
\* ------------------------------------------------------------------------

\* data lines of the win9x items outside the display slots: 0 (9xdrv) and
\* 10 (9xboot), with values a display slot would take
Line_1_0_800x16 == <<"1", "|", "0", "|", "8", "0", "0", "x", "1", "6">>
Line_1_10_false == <<"1", "|", "1", "0", "|", "false">>
Line_1_3_false == <<"1", "|", "3", "|", "false">>

FrameLines ==
  {Line_1_1_800x16, Line_21_1_1024x32, Line_1_3_false, Line_1_6_100,
   Line_1_0_800x16, Line_1_10_false, Line_7_3_256}

\* an override file of the frame family
FrameFiles ==
  {join(v \o b, "\n") : v \in {<<>>} \cup {<<m>> : m \in SampleVersionLines},
                        b \in SeqsUpTo(FrameLines, MaxDisplayEntries)}

InitFrame == InitOf(FrameFiles)

SpecFrame == InitFrame /\ [][Next]_vars

\* ------------------------------------------------------------------------
\* C23: the result of the display-settings extraction depends only on the
\* win9x fixed slots (section 1 items 1 to 9) plus the legacy 21|1 alias:
\* adding, removing or changing any other entry, win9x items 0 and 10 and
\* every entry of another section included, leaves the result unchanged.
\* ------------------------------------------------------------------------

\* the entries of the list that stand in a display slot, in order
displayEntries(es, legacy) == SelectSeq(es, LAMBDA e : inDisplaySlot(e, legacy))

\* the file without the data lines outside the display slots
RECURSIVE displayLinesOf(_, _)
displayLinesOf(lines, legacy) ==
  IF lines = <<>> THEN <<>>
  ELSE LET es == entriesOfLines(<<Head(lines)>>)
           keep == \/ startsWith(trim(Head(lines)), VerPrefix)
                   \/ es # <<>> /\ inDisplaySlot(es[1], legacy)
       IN  (IF keep THEN <<Head(lines)>> ELSE <<>>)
           \o displayLinesOf(Tail(lines), legacy)

displayPart(content, legacy) == join(displayLinesOf(split(content, "\n"), legacy), "\n")

\* C23, entry-list form: the result is that of the display-slot entries alone.
C23_EntryList ==
  pc \in {"extractWin9xSettings", "parseEditConf"} =>
    win9xSettings = extractWin9xSettings(displayEntries(entries, isLegacy), isLegacy)

\* C23, value-map form: the result is that of the files without their
\* lines outside the display slots.
C23_ValueMap ==
  pc = "getWin9xDisplaySettingsFromEditConf" =>
    win9xSettings =
      getWin9xDisplaySettingsFromEditConf(displayPart(cfgFileContent, fileIsLegacy),
                                          displayPart(editConfContent, fileIsLegacy))

\* C23: entries outside the display slots and the legacy alias never change
\* the extracted display settings.
C23_OnlyDisplaySlotsCount == C23_EntryList /\ C23_ValueMap

\* a list with a display-slot entry and a win9x entry outside the slots has
\* gone through the entry-list form
C23_Witness ==
  /\ pc = "extractWin9xSettings"
  /\ \E i \in 1..Len(entries) : entries[i].section = 1 /\ entries[i].item \in {0, 10}
  /\ \E i \in 1..Len(entries) : inDisplaySlot(entries[i], isLegacy)
  /\ win9xSettings # StatedDefaults

\* the same through the value-map form, with an entry of another section
C23_WitnessValueMap ==
  /\ pc = "getWin9xDisplaySettingsFromEditConf"
  /\ \E i \in 1..Len(parseEditConf(editConfContent)) :
       parseEditConf(editConfContent)[i].section = 7
  /\ win9xSettings # StatedDefaults

\* ------------------------------------------------------------------------
\* Override files of win9x volume entries
\* ------------------------------------------------------------------------

Line_1_6_300 == <<"1", "|", "6", "|", "3", "0", "0">>
Line_1_6_abc == <<"1", "|", "6", "|", "abc">>
Line_1_6_empty == <<"1", "|", "6", "|">>
Line_1_7_neg5 == <<"1", "|", "7", "|", "-", "5">>
Line_1_9_64 == <<"1", "|", "9", "|", "6", "4">>

VolumeLines ==
  {Line_1_6_100, Line_1_6_300, Line_1_6_abc, Line_1_6_empty, Line_1_7_neg5,
   Line_1_9_0, Line_1_9_64}

\* an override file of the volume family
VolumeFiles ==
  {join(v \o b, "\n") : v \in {<<>>} \cup {<<m>> : m \in SampleVersionLines},
                        b \in SeqsUpTo(VolumeLines, MaxDisplayEntries)}

InitVolume == InitOf(VolumeFiles)

SpecVolume == InitVolume /\ [][Next]_vars

\* a display-settings extraction has returned
displayReturned ==
  pc \in {"extractWin9xSettings", "parseEditConf",
          "getWin9xDisplaySettingsFromEditConf"}

\* ------------------------------------------------------------------------
\* C24: every volume (master, wave, midi, cd) of the display settings
\* returned by the extraction is an integer in the range 0..255, for every
\* input entry list or value map.
\* ------------------------------------------------------------------------

\* C24: the four volumes of a returned result lie in 0..255.
C24_VolumesInRange ==
  displayReturned =>
    /\ win9xSettings.volumes.master \in 0..255
    /\ win9xSettings.volumes.wave \in 0..255
    /\ win9xSettings.volumes.midi \in 0..255
    /\ win9xSettings.volumes.cd \in 0..255

\* ------------------------------------------------------------------------
\* C27: a win9x volume entry (section 1 items 6 to 9) whose value is
\* non-numeric or parses to 0 sets that volume to its default (255 for
\* master, wave and midi; 128 for cd), not to 0 and not to the value set by
\* an earlier entry; a volume of 0 can therefore never be the result.
\* ------------------------------------------------------------------------

\* the volume of the result that the item addresses, and its default
volumeOf(s, item) ==
  CASE item = 6 -> s.volumes.master
    [] item = 7 -> s.volumes.wave
    [] item = 8 -> s.volumes.midi
    [] item = 9 -> s.volumes.cd

volumeDefault(item) == IF item = 9 THEN 128 ELSE 255

\* the value is non-numeric or parses to 0
noVolume(value) == isNaN(parseInt(value)) \/ parseInt(value).val = 0

\* the positions of the entries of the item's volume slot
volumeEntries(es, item) ==
  {i \in 1..Len(es) : es[i].section = 1 /\ es[i].item = item}

\* when the last entry of a volume slot has no usable value, the result has
\* the default of that volume
volumeFallsBack(es, s) ==
  \A item \in 6..9 :
    LET at == volumeEntries(es, item)
    IN  at # {} =>
          LET last == CHOOSE i \in at : \A j \in at : j <= i
          IN  noVolume(es[last].value) => volumeOf(s, item) = volumeDefault(item)

C27_EntryList ==
  pc \in {"extractWin9xSettings", "parseEditConf"} =>
    /\ volumeFallsBack(entries, win9xSettings)
    /\ \A item \in 6..9 : volumeOf(win9xSettings, item) # 0

C27_ValueMap ==
  pc = "getWin9xDisplaySettingsFromEditConf" =>
    /\ volumeFallsBack(parseEditConf(cfgFileContent) \o parseEditConf(editConfContent),
                       win9xSettings)
    /\ \A item \in 6..9 : volumeOf(win9xSettings, item) # 0

\* C27: an unusable volume value gives the default of the volume in both
\* forms, and no volume of a result is 0.
C27_UnusableVolumeIsDefault == C27_EntryList /\ C27_ValueMap

\* a usable master volume followed by an unusable one: the result has the
\* default, not the earlier 100
C27_Witness ==
  /\ pc = "extractWin9xSettings"
  /\ Len(entries) = 2
  /\ entries[1] = [section |-> 1, item |-> 6, value |-> <<"1", "0", "0">>]
  /\ entries[2].section = 1 /\ entries[2].item = 6 /\ noVolume(entries[2].value)
  /\ win9xSettings.volumes.master = 255

\* a cd volume of 0 through the value-map form
C27_WitnessValueMap ==
  /\ pc = "getWin9xDisplaySettingsFromEditConf"
  /\ hasKey(values, win9xKey("9xcd")) /\ getKey(values, win9xKey("9xcd")) = <<"0">>
  /\ win9xSettings.volumes.cd = 128

\* ------------------------------------------------------------------------
\* C25: when a legacy override file carries a glide entry (address 19|0),
\* the assembled configuration text contains no [glide] section header: the
\* glide section resolved from that legacy alias is never emitted.
\* ------------------------------------------------------------------------

\* the file is read under the legacy schema and has an entry 19|0
legacyGlideFile ==
  /\ editConfContent # <<>>
  /\ fileIsLegacy
  /\ \E i \in 1..Len(parseEditConf(editConfContent)) :
       /\ parseEditConf(editConfContent)[i].section = 19
       /\ parseEditConf(editConfContent)[i].item = 0

\* C25: the text assembled for a legacy file with a glide entry has no
\* [glide] header line.
C25_NoGlideHeader ==
  (pc = "generateDosboxConfigWithOptions" /\ legacyGlideFile)
    => ~includes(config, headerLine("glide"))

\* ------------------------------------------------------------------------
\* Override files with several entries of one address
\* ------------------------------------------------------------------------

Line_7_3_64 == <<"7", "|", "3", "|", "6", "4">>
Line_8_0_normal == <<"8", "|", "0", "|", "normal">>

DuplicateLines == {Line_7_3_256, Line_7_3_64, Line_8_0, Line_8_0_normal, Line_3_3_256}

\* an override file of the duplicate family
DuplicateFiles ==
  {join(v \o b, "\n") : v \in {<<>>} \cup {<<m>> : m \in SampleVersionLines},
                        b \in SeqsUpTo(DuplicateLines, MaxEntries)}

InitDuplicate == InitOf(DuplicateFiles)

SpecDuplicate == InitDuplicate /\ [][Next]_vars

\* ------------------------------------------------------------------------
\* C26: when several entries of one list resolve to the same (sectionName,
\* keyName), the resolved settings map holds the value of the last such
\* entry in file order, and each key occurs once in its section.
\* ------------------------------------------------------------------------

\* no entry after the i-th resolves to the pair of the i-th
lastOfItsPair(es, i, legacy, r) ==
  \A j \in (i + 1)..Len(es) :
    ~(InTable(es[j], legacy, r) /\ TablePair(es[j], legacy, r) = TablePair(es[i], legacy, r))

\* every key occurs once in its section, every section once in the map
keysOccurOnce(s) ==
  /\ \A a, b \in 1..Len(s) : s[a].name = s[b].name => a = b
  /\ \A n \in 1..Len(s) :
       \A a, b \in 1..Len(s[n].items) :
         s[n].items[a].key = s[n].items[b].key => a = b

\* C26: the map holds, for every pair, the value of the last entry that
\* resolves to it, and no key twice.
C26_LastDuplicateWins ==
  pc = "convertEditConfToSettings" =>
    /\ \A i \in 1..Len(entries) :
         (InTable(entries[i], isLegacy, rev) /\ lastOfItsPair(entries, i, isLegacy, rev))
           => /\ TablePair(entries[i], isLegacy, rev) \in pairsOf(overrideSettings)
              /\ valueOf(overrideSettings, TablePair(entries[i], isLegacy, rev))
                   = entries[i].value
    /\ keysOccurOnce(overrideSettings)

\* two entries of one pair with different values have been resolved
C26_Witness ==
  /\ pc = "convertEditConfToSettings"
  /\ Len(entries) = 2
  /\ InTable(entries[1], isLegacy, rev) /\ InTable(entries[2], isLegacy, rev)
  /\ TablePair(entries[1], isLegacy, rev) = TablePair(entries[2], isLegacy, rev)
  /\ entries[1].value # entries[2].value
  /\ valueOf(overrideSettings, TablePair(entries[2], isLegacy, rev)) = entries[2].value

\* ------------------------------------------------------------------------
\* services/tistory.ts: downloadFileWithRetry
\* ------------------------------------------------------------------------

MAX_RETRIES == 3

RETRY_DELAY == 1000

\* what an attempt can throw: the fetch itself, a response that is not ok,
\* a response without body, a failed read or write
AttemptErrors == {"FetchError", "HttpError", "NoResponseBody", "WriteError"}

\* the catch block sleeps after every failed attempt
sleepsAfter_always(k) == TRUE

\* if (attempt < MAX_RETRIES) of the catch block
sleepsAfter(k) == k < MAX_RETRIES

\* downloadFileWithRetry(url, destPath, onProgress) is called: lastError is
\* null and the loop starts with attempt 1
DownloadFileWithRetry ==
  /\ pc = "ready"
  /\ pc' = "downloadFileWithRetry"
  /\ attempt' = 1
  /\ lastError' = Null
  /\ retryPc' = IF 1 <= MAX_RETRIES THEN "try" ELSE "thrown"
  /\ retryThrown' = IF 1 <= MAX_RETRIES THEN Null ELSE <<"Download failed">>
  /\ UNCHANGED <<fetches, errors, sleeps>>
  /\ UNCHANGED <<coreVars, downloadVars, templateVars>>
  /\ UNCHANGED extractVars
  /\ UNCHANGED menuVars

\* the try block runs to its return: the response is fetched, read and
\* written
AttemptSucceeds ==
  /\ pc = "downloadFileWithRetry"
  /\ retryPc = "try"
  /\ fetches' = fetches + 1
  /\ retryPc' = "returned"
  /\ UNCHANGED <<pc, attempt, lastError, errors, sleeps, retryThrown>>
  /\ UNCHANGED <<coreVars, downloadVars, templateVars>>
  /\ UNCHANGED extractVars
  /\ UNCHANGED menuVars

\* the try block throws: the catch block records the error and either
\* starts the sleep or goes on to the next loop test
AttemptFails ==
  /\ pc = "downloadFileWithRetry"
  /\ retryPc = "try"
  /\ fetches' = fetches + 1
  /\ \E e \in AttemptErrors :
       /\ lastError' = <<e>>
       /\ errors' = Append(errors, <<e>>)
  /\ IF sleepsAfter(attempt)
     THEN /\ sleeps' = Append(sleeps, RETRY_DELAY * attempt)
          /\ retryPc' = "sleep"
          /\ UNCHANGED <<attempt, retryThrown>>
     ELSE /\ attempt' = attempt + 1
          /\ retryPc' = IF attempt' <= MAX_RETRIES THEN "try" ELSE "thrown"
          /\ retryThrown' = IF attempt' <= MAX_RETRIES THEN retryThrown
                            ELSE IF lastError' # Null THEN lastError'
                            ELSE <<"Download failed">>
          /\ UNCHANGED sleeps
  /\ UNCHANGED pc
  /\ UNCHANGED <<coreVars, downloadVars, templateVars>>
  /\ UNCHANGED extractVars
  /\ UNCHANGED menuVars

\* the sleep of the catch block ends: attempt++ and the loop test
SleepEnds ==
  /\ pc = "downloadFileWithRetry"
  /\ retryPc = "sleep"
  /\ attempt' = attempt + 1
  /\ retryPc' = IF attempt' <= MAX_RETRIES THEN "try" ELSE "thrown"
  /\ retryThrown' = IF attempt' <= MAX_RETRIES THEN retryThrown
                    ELSE IF lastError # Null THEN lastError
                    ELSE <<"Download failed">>
  /\ UNCHANGED <<pc, lastError, errors, sleeps, fetches>>
  /\ UNCHANGED <<coreVars, downloadVars, templateVars>>
  /\ UNCHANGED extractVars
  /\ UNCHANGED menuVars

\* ------------------------------------------------------------------------
\* C28: downloadFileWithRetry makes at most 3 fetch attempts for one file:
\* it returns right after the first successful attempt without further
\* attempts, waits 1000*k ms after the k-th failed attempt only for k < 3,
\* and after the third failure throws the last error without waiting again.
\* ------------------------------------------------------------------------

\* the waits so far are 1000*k after the k-th failure, for k < 3 only
statedSleeps(failed) == [k \in 1..(IF failed < 3 THEN failed ELSE 2) |-> 1000 * k]

\* C28: never more than 3 attempts; a return comes with the first success;
\* a throw comes with the third failure, carries its error and follows
\* waits of 1000 and 2000 ms only.
C28_RetryDiscipline ==
  pc = "downloadFileWithRetry" =>
    /\ fetches <= 3
    /\ retryPc = "returned" =>
         /\ fetches = Len(errors) + 1
         /\ sleeps = statedSleeps(Len(errors))
    /\ retryPc = "sleep" => sleeps = statedSleeps(Len(errors)) /\ Len(errors) < 3
    /\ retryPc = "try" => sleeps = statedSleeps(Len(errors)) /\ fetches = Len(errors)
    /\ retryPc = "thrown" =>
         /\ fetches = 3 /\ Len(errors) = 3
         /\ sleeps = <<1000, 2000>>
         /\ retryThrown = errors[3]

\* three attempts have failed and the call has thrown
C28_Witness ==
  /\ pc = "downloadFileWithRetry"
  /\ retryPc = "thrown"
  /\ Len(errors) = 3
  /\ errors[2] # errors[3]
  /\ retryThrown = errors[3]

\* the second attempt has succeeded after one wait
C28_WitnessReturn ==
  /\ pc = "downloadFileWithRetry"
  /\ retryPc = "returned"
  /\ fetches = 2
  /\ sleeps = <<1000>>

\* ------------------------------------------------------------------------
\* services/extractor.ts: extractGameArchive
\* ------------------------------------------------------------------------

\* f.match(/\.7z$/i)
isArchive(f) == endsWith(toUpperCase(f), <<".", "7", "Z">>)

\* f.match(/\.7z\.\d+$/i)
isSplitPart(f) ==
  \E k \in 5..Len(f) :
    /\ \A i \in k..Len(f) : f[i] \in Digits
    /\ SubSeq(toUpperCase(f), k - 4, k - 1) = <<".", "7", "Z", ".">>

\* f.match(/\.7z\.001$/i)
isFirstPart(f) == endsWith(toUpperCase(f), <<".", "7", "Z", ".", "0", "0", "1">>)

\* the filter of extractGameArchive: archives and parts that are neither
\* Config nor Manual
isGameFile(f) ==
  /\ isArchive(f) \/ isSplitPart(f)
  /\ ~includes(toUpperCase(f), <<"_", "C", "O", "N", "F", "I", "G">>)
  /\ ~includes(toUpperCase(f), <<"_", "M", "A", "N", "U", "A", "L">>)

\* findFirstSplitFile(files), the files given in sorted order: the first
\* .7z.001, else the first standalone .7z, else null
findFirstSplitFile(sortedFiles) ==
  LET firsts == SelectSeq(sortedFiles, isFirstPart)
      alone == SelectSeq(sortedFiles, LAMBDA f : isArchive(f) /\ ~isSplitPart(f))
  IN  IF firsts # <<>> THEN Head(firsts)
      ELSE IF alone # <<>> THEN Head(alone)
      ELSE Null

\* run7z reports success whatever the process did
run7zSuccess_always(outcome) == TRUE

\* run7z: success is exit code 0; a non-zero exit, the timeout and an error
\* of spawn all give success: false
run7zSuccess(outcome) == outcome = "exit0"

Run7zOutcomes == {"exit0", "exitNonZero", "timeout", "spawnError"}

\* listings of a game directory, in sorted order
FileConfig == <<"g", "_", "c", "o", "n", "f", "i", "g", ".", "7", "z">>
FileManual == <<"g", "_", "m", "a", "n", "u", "a", "l", ".", "7", "z", ".", "0", "0", "1">>
FilePart1 == <<"g", ".", "7", "z", ".", "0", "0", "1">>
FilePart2 == <<"g", ".", "7", "z", ".", "0", "0", "2">>
FilePart3 == <<"g", ".", "7", "z", ".", "0", "0", "3">>
FileAlone == <<"g", ".", "7", "Z">>
FileReadme == <<"readme", ".", "txt">>

SampleListings ==
  {<<>>, <<FileReadme>>, <<FileConfig, FileManual>>,
   <<FilePart2, FilePart3>>,
   <<FilePart1, FilePart2, FilePart3, FileConfig>>,
   <<FileAlone, FileManual, FileReadme>>,
   <<FilePart1, FilePart2>>}

\* extractGameArchive(gameDir) is called: readdir, the filter, the two
\* tests that throw, and the start of extract7z
ExtractGameArchive ==
  /\ pc = "ready"
  /\ pc' = "extractGameArchive"
  /\ listing' \in SampleListings
  /\ present' = {listing'[i] : i \in 1..Len(listing')}
  /\ LET gameFiles == SelectSeq(listing', isGameFile)
         firstFile == findFirstSplitFile(gameFiles)
     IN  /\ toUnlink' = gameFiles
         /\ IF gameFiles = <<>>
            THEN /\ extractPc' = "thrown"
                 /\ extractError' = "No game archive files found"
            ELSE IF firstFile = Null
            THEN /\ extractPc' = "thrown"
                 /\ extractError' = "Could not find the first archive file"
            ELSE /\ extractPc' = "extract7z"
                 /\ extractError' = "none"
  /\ UNCHANGED run7zOutcome
  /\ UNCHANGED <<coreVars, downloadVars, templateVars, retryVars>>
  /\ UNCHANGED menuVars

\* mkdir of extract7z fails: the call throws before 7z is run
MkdirFails ==
  /\ pc = "extractGameArchive"
  /\ extractPc = "extract7z"
  /\ extractPc' = "thrown"
  /\ extractError' = "mkdir"
  /\ UNCHANGED <<pc, listing, present, toUnlink, run7zOutcome>>
  /\ UNCHANGED <<coreVars, downloadVars, templateVars, retryVars>>
  /\ UNCHANGED menuVars

\* run7z of extract7z ends: extract7z throws unless the result is a success
Run7zEnds ==
  /\ pc = "extractGameArchive"
  /\ extractPc = "extract7z"
  /\ run7zOutcome' \in Run7zOutcomes
  /\ IF run7zSuccess(run7zOutcome')
     THEN extractPc' = "unlink" /\ UNCHANGED extractError
     ELSE extractPc' = "thrown" /\ extractError' = "Failed to extract archive"
  /\ UNCHANGED <<pc, listing, present, toUnlink>>
  /\ UNCHANGED <<coreVars, downloadVars, templateVars, retryVars>>
  /\ UNCHANGED menuVars

\* one turn of the loop that deletes the game files: unlink removes the
\* file or fails, and a failure is swallowed
UnlinkNext ==
  /\ pc = "extractGameArchive"
  /\ extractPc = "unlink"
  /\ toUnlink # <<>>
  /\ \E removed \in BOOLEAN :
       present' = IF removed THEN present \ {Head(toUnlink)} ELSE present
  /\ toUnlink' = Tail(toUnlink)
  /\ extractPc' = IF toUnlink' = <<>> THEN "returned" ELSE "unlink"
  /\ UNCHANGED <<pc, listing, run7zOutcome, extractError>>
  /\ UNCHANGED <<coreVars, downloadVars, templateVars, retryVars>>
  /\ UNCHANGED menuVars

\* ------------------------------------------------------------------------
\* C29: extractGameArchive deletes the downloaded game archive parts only
\* after the extraction has returned success: whenever extraction fails
\* (non-zero exit, timeout or spawn error) or no first archive part is
\* found, the call throws and no archive file has been deleted.
\* ------------------------------------------------------------------------

\* the files of the listing that are no longer in the directory
deletedFiles == {listing[i] : i \in 1..Len(listing)} \ present

\* C29: a file is missing only after 7z has exited with 0; a failed
\* extraction or a missing first part ends in a throw with every file in
\* place.
C29_DeleteOnlyAfterSuccess ==
  pc = "extractGameArchive" =>
    /\ deletedFiles # {} => run7zOutcome = "exit0"
    /\ run7zOutcome \in {"exitNonZero", "timeout", "spawnError"} =>
         extractPc = "thrown" /\ deletedFiles = {}
    /\ (findFirstSplitFile(SelectSeq(listing, isGameFile)) = Null) =>
         extractPc = "thrown" /\ deletedFiles = {}
    /\ extractPc = "thrown" => deletedFiles = {}

\* 7z has timed out on a listing with game parts: the call has thrown and
\* the parts are in place
C29_Witness ==
  /\ pc = "extractGameArchive"
  /\ run7zOutcome = "timeout"
  /\ extractPc = "thrown"
  /\ FilePart1 \in present /\ FilePart2 \in present

\* parts without a first part: the call has thrown
C29_WitnessNoFirstPart ==
  /\ pc = "extractGameArchive"
  /\ listing = <<FilePart2, FilePart3>>
  /\ extractPc = "thrown"
  /\ extractError = "Could not find the first archive file"

\* after a success the game parts are gone and the Config archive is kept
C29_WitnessDeleted ==
  /\ pc = "extractGameArchive"
  /\ extractPc = "returned"
  /\ deletedFiles = {FilePart1, FilePart2, FilePart3}
  /\ FileConfig \in present

\* ------------------------------------------------------------------------
\* services/config-parser.ts: parseMenuItems
\* ------------------------------------------------------------------------

\* largest number of parsed lines after the leading [SELECT]
MaxMenuLines == 4

\* a parsed line, by what the control flow of parseMenuItems tells apart:
\* its depth, and whether its content is [SELECT], [NEW] or [WIN], an addkey
\* command, or anything else
MenuKinds == {"[SELECT]", "[NEW]", "addkey", "other"}

MenuLines == [depth : 0..1, content : MenuKinds]

\* parseLinesToDepth(lines) of a menu in the [SELECT] format
ParsedMenus ==
  {<<[depth |-> 0, content |-> "[SELECT]"]>> \o rest :
     rest \in SeqsUpTo(MenuLines, MaxMenuLines)}

\* the activation of parseMenuItems(parsedLines, startIdx, targetDepth, ...)
\* with its locals i and currentOption (null or not)
menuFrame(startIdx, targetDepth) ==
  [startIdx |-> startIdx, i |-> startIdx, targetDepth |-> targetDepth,
   hasOption |-> FALSE]

\* the activation that is running
top(st) == st[Len(st)]

\* the recursive call starts at the line of the caller
childStart_same(i) == i

\* i + 2 of the recursive call: skip the [SELECT]
childStart(i) == i + 2

\* the line at the 0-based index i
lineOf(ls, i) == ls[i + 1]

\* while (i < parsedLines.length) is true and the body does not break
inLoop(ls, f) ==
  /\ f.i < Len(ls)
  /\ ~(lineOf(ls, f.i).depth < f.targetDepth /\ ~f.hasOption)

\* the test that the next line starts a nested [SELECT], reached only by a
\* line at the target depth that is not [SELECT], [NEW], [WIN] or addkey,
\* while there is a current option
callsNested(ls, f) ==
  /\ inLoop(ls, f)
  /\ lineOf(ls, f.i).depth = f.targetDepth
  /\ lineOf(ls, f.i).content = "other"
  /\ f.hasOption
  /\ f.i + 1 < Len(ls)
  /\ lineOf(ls, f.i + 1).depth = f.targetDepth + 1
  /\ lineOf(ls, f.i + 1).content = "[SELECT]"

\* parseAutoexecConf finds [SELECT] on the first line and calls
\* parseMenuItems(parsedLines, 1, 0, '')
ParseAutoexecConf ==
  /\ pc = "ready"
  /\ pc' = "parseMenuItems"
  /\ parsedLines' \in ParsedMenus
  /\ stack' = <<menuFrame(1, 0)>>
  /\ menuPc' = "run"
  /\ UNCHANGED menuEndIdx
  /\ UNCHANGED <<coreVars, downloadVars, templateVars, retryVars, extractVars>>

\* one iteration of the while loop that ends with i++: a line of a lower
\* depth taken as a command, a deeper line, [SELECT], [NEW] or [WIN], which
\* starts an option, addkey, or another line not followed by a nested menu
MenuIteration ==
  /\ pc = "parseMenuItems"
  /\ menuPc = "run"
  /\ LET f == top(stack)
     IN  /\ inLoop(parsedLines, f)
         /\ ~callsNested(parsedLines, f)
         /\ LET line == lineOf(parsedLines, f.i)
                starts == line.depth = f.targetDepth /\ line.content = "[NEW]"
            IN  stack' = [stack EXCEPT ![Len(stack)] =
                            [f EXCEPT !.i = f.i + 1,
                                      !.hasOption = f.hasOption \/ starts]]
  /\ UNCHANGED <<pc, parsedLines, menuPc, menuEndIdx>>
  /\ UNCHANGED <<coreVars, downloadVars, templateVars, retryVars, extractVars>>

\* the iteration that calls parseMenuItems for the nested [SELECT]
MenuRecursiveCall ==
  /\ pc = "parseMenuItems"
  /\ menuPc = "run"
  /\ LET f == top(stack)
     IN  /\ callsNested(parsedLines, f)
         /\ stack' = Append(stack, menuFrame(childStart(f.i), f.targetDepth + 1))
  /\ UNCHANGED <<pc, parsedLines, menuPc, menuEndIdx>>
  /\ UNCHANGED <<coreVars, downloadVars, templateVars, retryVars, extractVars>>

\* the loop ends or breaks: return { options, endIdx: i }; a caller takes
\* i = result.endIdx and continues
MenuReturn ==
  /\ pc = "parseMenuItems"
  /\ menuPc = "run"
  /\ LET f == top(stack)
     IN  /\ ~inLoop(parsedLines, f)
         /\ IF Len(stack) = 1
            THEN /\ stack' = <<>>
                 /\ menuPc' = "returned"
                 /\ menuEndIdx' = f.i
            ELSE /\ stack' = [SubSeq(stack, 1, Len(stack) - 1)
                                EXCEPT ![Len(stack) - 1].i = f.i]
                 /\ UNCHANGED <<menuPc, menuEndIdx>>
  /\ UNCHANGED <<pc, parsedLines>>
  /\ UNCHANGED <<coreVars, downloadVars, templateVars, retryVars, extractVars>>

\* the menu parser on its own
InitMenu == InitOf({<<>>})

NextMenu ==
  \/ ParseAutoexecConf
  \/ MenuIteration
  \/ MenuRecursiveCall
  \/ MenuReturn

SpecMenu == InitMenu /\ [][NextMenu]_vars

\* ------------------------------------------------------------------------
\* C30: the launch-menu parser parseMenuItems terminates on every list of
\* parsed lines: each loop iteration either breaks or strictly increases
\* the line index, and a recursive call for a nested [SELECT] starts at
\* least two lines later and returns an end index not before its start, so
\* the caller's index also strictly increases.
\* ------------------------------------------------------------------------

\* a step of the parser is an iteration that increases the index, a call
\* that starts two lines later, or a return with an end index not before
\* the start, which increases the index of the caller
menuStepProgresses ==
  (menuPc = "run" /\ stack' # stack) =>
    \/ /\ Len(stack') = Len(stack)
       /\ top(stack').i > top(stack).i
    \/ /\ Len(stack') = Len(stack) + 1
       /\ top(stack').startIdx >= top(stack).i + 2
       /\ top(stack').i = top(stack').startIdx
    \/ /\ Len(stack') = Len(stack) - 1
       /\ top(stack).i >= top(stack).startIdx
       /\ Len(stack') > 0 =>
            /\ top(stack').i = top(stack).i
            /\ top(stack').i > stack[Len(stack) - 1].i

\* the work left: the lines after the index of the running activation,
\* weighted so that a call and a return count as well; 0 once the outermost
\* call has returned
workLeft(ls, st) ==
  IF st = <<>> THEN 0 ELSE 3 * (Len(ls) - top(st).i) + Len(st)

\* C30: every step of the parser makes the stated progress, the index never
\* passes the end of the list, and the work left, a natural number, goes
\* down with every step: no run of the parser has more steps than the work
\* left at its start.
C30_ParseMenuItemsTerminates ==
  [][/\ menuStepProgresses
     /\ (menuPc = "run" /\ stack' # stack) =>
          /\ workLeft(parsedLines', stack') < workLeft(parsedLines, stack)
          /\ workLeft(parsedLines', stack') >= 0
          /\ stack' = <<>> <=> menuPc' = "returned"]_vars

\* a nested menu has been parsed and the outer call has returned past it
C30_Witness ==
  /\ pc = "parseMenuItems"
  /\ menuPc = "returned"
  /\ Len(parsedLines) = 4
  /\ parsedLines[2] = [depth |-> 0, content |-> "[NEW]"]
  /\ parsedLines[3] = [depth |-> 0, content |-> "other"]
  /\ parsedLines[4] = [depth |-> 1, content |-> "[SELECT]"]
  /\ menuEndIdx = 4

\* a nested call is running and has gone through a line of its own
C30_WitnessNested ==
  /\ menuPc = "run"
  /\ Len(stack) = 2
  /\ top(stack).startIdx = stack[1].i + 2
  /\ top(stack).i > top(stack).startIdx

\* ------------------------------------------------------------------------
\* The download, template and extraction services on their own
\* ------------------------------------------------------------------------

InitIO == InitOf(TokenFiles)

NextIO ==
  \/ DownloadFiles
  \/ LimitStartsTask
  \/ TaskCompletes
  \/ TaskFails
  \/ CallApplyValuesToTemplate
  \/ ProcessTemplate
  \/ DownloadFileWithRetry
  \/ AttemptSucceeds
  \/ AttemptFails
  \/ SleepEnds
  \/ ExtractGameArchive
  \/ MkdirFails
  \/ Run7zEnds
  \/ UnlinkNext

SpecIO == InitIO /\ [][NextIO]_vars

====
